---- MODULE Spec2Model ----
(***************************************************************************)
(* CHARON conversation / approval pipeline of the mothership terminal.     *)
(*                                                                         *)
(* The cache keys charon_<channel>_conversation, charon_<channel>_pending, *)
(* charon_<channel>_last_read and charon_active_channels are the state;    *)
(* the CharonSessionManager methods and the request handlers of views.py   *)
(* are the actions.  A cache miss reads as the default the code passes to  *)
(* cache.get, so a deleted key and an empty list are the same value.       *)
(* uuid4() is a fresh natural number; timestamps are not modelled (no      *)
(* operation reads them).  What a call returns is a parameter of its       *)
(* action: approve_response(..., ok) is the step of a call returning ok.   *)
(***************************************************************************)
EXTENDS Integers, Sequences, FiniteSets, TLC

VARIABLES
    conversation,     \* channel -> list of message dicts (key <ch>_conversation)
    pending,          \* channel -> list of pending dicts (key <ch>_pending)
    last_read,        \* channel -> message id of the read marker, NoMarker if absent
    active_channels,  \* list of channel names (key active_channels)
    active_view,      \* the singleton ActiveView row (the field the handlers read)
    charon_ai,        \* the CharonAI instance: config record and client flag
    next_uuid,        \* number of uuid4() values handed out so far
    threads,          \* interleaved calls: their positions and locals
    out,              \* what the last call of a function under test returned
    ttl,              \* cache key -> ticks left before the key expires (0: no key)
    charon_cache,     \* _charon_cache: cache key -> CharonAI instance
    files,            \* the files under data/ and the vault that the loaders read
    broadcaster       \* the MessageAnnouncer singleton: its listeners and their queues

vars == <<conversation, pending, last_read, active_channels, active_view,
          charon_ai, next_uuid, threads, out, ttl, charon_cache, files,
          broadcaster>>

\* What the session store and the handlers neither read nor write.
loaderVars == <<charon_cache, files, broadcaster>>

storeVars == <<conversation, pending, last_read, active_channels>>

----------------------------------------------------------------------------
(* Bounds and input alphabets *)

MaxUuid == 3

Channels == {"default", "story"}

Queries == {"q"}

GmContents == {"g"}

ModelTexts == {"r"}

\* Optional values: None is the empty tuple, a given value x is <<x>>.
None == <<>>

Some(x) == <<x>>

Overrides == {None, Some("")}

\* last_read absent / last_read_message_id = None
NoMarker == 0

Range(s) == {s[i] : i \in 1..Len(s)}

\* str.startswith(prefix)
startswith(str, prefix) ==
    Len(prefix) <= Len(str) /\ SubSeq(str, 1, Len(prefix)) = prefix

----------------------------------------------------------------------------
(* charon_session.py : CharonMessage and CharonSessionManager *)

CharonMessage(id, role, content) ==
    [message_id |-> id, role |-> role, content |-> content, pending_approval |-> FALSE]

get_conversation(ch) == conversation[ch]

get_pending_responses(ch) == pending[ch]

get_all_channels == active_channels

get_last_read(ch) == last_read[ch]

\* Mutant: the name is appended without the membership test.
RegisterUnchecked(channels, ch) == Append(channels, ch)

\* register_channel: append the name unless it is already listed.
register_channel(channels, ch) ==
    IF ch \in Range(channels) THEN channels ELSE Append(channels, ch)

\* Mutant: the draft is queued twice.
AddPendingTwice(query, response, query_id, pid, ch) ==
    pending' = [pending EXCEPT ![ch] =
                   pending[ch] \o <<[pending_id |-> pid, query_id |-> query_id,
                                     query |-> query, response |-> response],
                                    [pending_id |-> pid, query_id |-> query_id,
                                     query |-> query, response |-> response]>>]

\* Mutant: the message is put at the head of the list.
PrependMessage(conv, msg) == <<msg>> \o conv

\* The list add_message writes back: the list read, with the message appended.
AppendMessage(conv, msg) == Append(conv, msg)

\* add_message: read the list, append, write it back, register the channel.
add_message(msg, ch) ==
    /\ conversation' = [conversation EXCEPT ![ch] = AppendMessage(get_conversation(ch), msg)]
    /\ active_channels' = register_channel(active_channels, ch)

PendingEntry(pid, query_id, query, response) ==
    [pending_id |-> pid, query_id |-> query_id, query |-> query, response |-> response]

\* add_pending_response: append a draft under a fresh pending id.
add_pending_response(query, response, query_id, pid, ch) ==
    pending' = [pending EXCEPT ![ch] =
                   Append(get_pending_responses(ch), PendingEntry(pid, query_id, query, response))]

\* Index of the first entry carrying pending_id, 0 when there is none
\* (the for-loop of get_pending_by_id / approve_response / reject_response).
FindPending(pend, pid) ==
    IF \E i \in 1..Len(pend) : pend[i].pending_id = pid
    THEN CHOOSE i \in 1..Len(pend) :
            /\ pend[i].pending_id = pid
            /\ \A j \in 1..(i - 1) : pend[j].pending_id # pid
    ELSE 0

\* Mutant: the last entry is dropped instead of the matching one.
ListRemoveLast(s, item) == IF s = <<>> THEN s ELSE SubSeq(s, 1, Len(s) - 1)

\* Mutant: the entry and everything queued after it are dropped.
ListRemoveFrom(s, item) ==
    IF \E i \in 1..Len(s) : s[i] = item
    THEN LET k == CHOOSE i \in 1..Len(s) :
                     /\ s[i] = item
                     /\ \A j \in 1..(i - 1) : s[j] # item
         IN  SubSeq(s, 1, k - 1)
    ELSE s

\* list.remove(item): drop the first element equal to item.
ListRemove(s, item) ==
    IF \E i \in 1..Len(s) : s[i] = item
    THEN LET k == CHOOSE i \in 1..Len(s) :
                     /\ s[i] = item
                     /\ \A j \in 1..(i - 1) : s[j] # item
         IN  SubSeq(s, 1, k - 1) \o SubSeq(s, k + 1, Len(s))
    ELSE s

\* Mutant: an empty override counts as no override.
ApprovedContentIfTruthy(item, modified_content) ==
    IF modified_content # None /\ modified_content[1] # ""
    THEN modified_content[1]
    ELSE item.response

\* content = modified_content if modified_content is not None else item['response']
ApprovedContent(item, modified_content) ==
    IF modified_content # None THEN modified_content[1] ELSE item.response

\* approve_response, returning ok: the message id mid is the uuid of the new message.
approve_response(pid, modified_content, ch, mid, ok) ==
    LET pend == get_pending_responses(ch)
        i    == FindPending(pend, pid)
    IN  IF i # 0
        THEN /\ add_message(CharonMessage(mid, "charon", ApprovedContent(pend[i], modified_content)), ch)
             /\ pending' = [pending EXCEPT ![ch] = ListRemove(pend, pend[i])]
             /\ ok = TRUE
        ELSE /\ UNCHANGED <<conversation, active_channels, pending>>
             /\ ok = FALSE

\* reject_response, returning ok.
reject_response(pid, ch, ok) ==
    LET pend == get_pending_responses(ch)
        i    == FindPending(pend, pid)
    IN  IF i # 0
        THEN /\ pending' = [pending EXCEPT ![ch] = ListRemove(pend, pend[i])]
             /\ ok = TRUE
        ELSE /\ UNCHANGED pending
             /\ ok = FALSE

\* The value cache.delete leaves behind for the conversation and pending keys.
Deleted == <<>>

\* Mutant: the keys of every channel are deleted.
ClearEveryChannel(ch) ==
    /\ conversation' = [c \in DOMAIN conversation |-> Deleted]
    /\ pending' = [c \in DOMAIN pending |-> Deleted]

\* Mutant: only the conversation key is deleted.
ClearConversationOnly(ch) ==
    /\ conversation' = [conversation EXCEPT ![ch] = Deleted]
    /\ UNCHANGED pending

\* clear_conversation: delete the conversation key and the pending key.
clear_conversation(ch) ==
    /\ conversation' = [conversation EXCEPT ![ch] = Deleted]
    /\ pending' = [pending EXCEPT ![ch] = Deleted]

\* The marker mark_channel_read stores: the id of the last message.
LastMessageId(conv) == conv[Len(conv)].message_id

\* mark_channel_read: no write when the conversation is empty.
mark_channel_read(ch) ==
    LET conv == get_conversation(ch)
    IN  IF conv # <<>>
        THEN last_read' = [last_read EXCEPT ![ch] = LastMessageId(conv)]
        ELSE UNCHANGED last_read

\* Mutant: the marked message itself is counted as unread.
UnreadCountFromMarker(conv, last_read_message_id) ==
    IF conv = <<>> THEN 0
    ELSE IF last_read_message_id # NoMarker
    THEN IF \E i \in 1..Len(conv) : conv[i].message_id = last_read_message_id
         THEN LET k == CHOOSE i \in 1..Len(conv) :
                          /\ conv[i].message_id = last_read_message_id
                          /\ \A j \in 1..(i - 1) : conv[j].message_id # last_read_message_id
              IN  Len(conv) - k + 1
         ELSE 0
    ELSE Cardinality({i \in 1..Len(conv) :
                         /\ conv[i].role = "user"
                         /\ (i + 1 > Len(conv) \/ conv[i + 1].role # "charon")})

\* Mutant: without a marker only a trailing user message counts, as under
\* strict user/charon alternation.
UnreadCountAlternating(conv, last_read_message_id) ==
    IF conv = <<>> THEN 0
    ELSE IF last_read_message_id # NoMarker
    THEN IF \E i \in 1..Len(conv) : conv[i].message_id = last_read_message_id
         THEN LET k == CHOOSE i \in 1..Len(conv) :
                          /\ conv[i].message_id = last_read_message_id
                          /\ \A j \in 1..(i - 1) : conv[j].message_id # last_read_message_id
              IN  Len(conv) - k
         ELSE 0
    ELSE IF conv[Len(conv)].role = "user" THEN 1 ELSE 0

\* get_unread_count on a conversation list and a marker id.
get_unread_count(conv, last_read_message_id) ==
    IF conv = <<>> THEN 0
    ELSE IF last_read_message_id # NoMarker
    THEN IF \E i \in 1..Len(conv) : conv[i].message_id = last_read_message_id
         THEN LET k == CHOOSE i \in 1..Len(conv) :
                          /\ conv[i].message_id = last_read_message_id
                          /\ \A j \in 1..(i - 1) : conv[j].message_id # last_read_message_id
              IN  Len(conv) - k
         ELSE 0
    ELSE Cardinality({i \in 1..Len(conv) :
                         /\ conv[i].role = "user"
                         /\ (i + 1 > Len(conv) \/ conv[i + 1].role # "charon")})

----------------------------------------------------------------------------
(* charon_ai.py : CharonAI *)

\* The number of history entries sent to the model.
HistoryWindow == 10

DefaultFallbacks == <<"[SYSTEM ERROR] Unable to process query at this time.">>

\* The hardcoded config _load_config returns when context.yaml is absent.
DefaultConfig ==
    [system_prompt |-> Some("You are CHARON, a ship AI. Be terse and technical."),
     max_response_length |-> Some(500),
     fallback_responses |-> Some(DefaultFallbacks)]

\* _load_config: the parsed file when it exists, the hardcoded config otherwise.
\* config_file is None or Some(record); a field of the record is None when absent.
load_config(config_file) ==
    IF config_file # None THEN config_file[1] ELSE DefaultConfig

\* CharonAI.__init__ : config, and a client iff the credential built one.
CharonAI(config_file, has_client) ==
    [config |-> load_config(config_file), client |-> has_client]

\* The result of a call: a returned text, or an exception leaving the call.
Return(text) == [raised |-> FALSE, text |-> text]

Raise == [raised |-> TRUE, text |-> ""]

\* dict.get(key, default) on an optional field.
Get(field, default) == IF field # None THEN field[1] ELSE default

\* random.choice(seq): any element; IndexError on an empty sequence.
random_choice(seq) ==
    IF seq = <<>> THEN {Raise} ELSE {Return(seq[i]) : i \in 1..Len(seq)}

\* _get_fallback_response
get_fallback_response(ai) ==
    random_choice(Get(ai.config.fallback_responses, DefaultFallbacks))

\* Mutant: the whole history is sent, not its last entries.
BuildMessagesUnwindowed(query, history) ==
    [i \in 1..Len(history) |->
        [role |-> IF history[i].role = "charon" THEN "assistant" ELSE "user",
         content |-> history[i].content]]
    \o <<[role |-> "user", content |-> query]>>

\* The role mapping and history window of generate_response.
BuildMessages(query, history) ==
    LET n    == Len(history)
        from == IF n > HistoryWindow THEN n - HistoryWindow + 1 ELSE 1
        tail == SubSeq(history, from, n)
    IN  [i \in 1..Len(tail) |->
            [role |-> IF tail[i].role = "charon" THEN "assistant" ELSE "user",
             content |-> tail[i].content]]
        \o <<[role |-> "user", content |-> query]>>

\* The arguments of client.messages.create (system prompt without the
\* knowledge context, which no outcome depends on).
ModelRequest(ai, query, history) ==
    [messages |-> BuildMessages(query, history),
     max_tokens |-> Get(ai.config.max_response_length, 500),
     system |-> Get(ai.config.system_prompt, "")]

\* client.messages.create(...) then response.content[0].text: the provider
\* answers with a text, or the call throws.
ModelCall(request) == {Raise} \cup {Return(t) : t \in ModelTexts}

\* generate_response: the outcomes of one call in which the provider, if it is
\* called, behaves as reply.
generate_response(ai, query, history, reply) ==
    IF ~ai.client
    THEN get_fallback_response(ai)
    ELSE IF reply.raised
    THEN get_fallback_response(ai)
    ELSE {reply}

\* The outcomes of one call, over everything the provider may do.
Generate(ai, query, history) ==
    UNION {generate_response(ai, query, history, reply) :
              reply \in ModelCall(ModelRequest(ai, query, history))}

----------------------------------------------------------------------------
(* views.py : the request handlers.  status is the HTTP status returned. *)

ViewTypes == {"STANDBY", "CHARON_TERMINAL", "BRIDGE", "ENCOUNTER"}

Modes == {"DISPLAY", "QUERY"}

Statuses == {"200", "400", "403", "404", "500"}

\* Mutant: the submit handler builds its message with the role of a reply.
QueryMessageAsCharon(id, query) == CharonMessage(id, "charon", query)

\* query_msg = CharonMessage(role='user', content=query)
QueryMessage(id, query) == CharonMessage(id, "user", query)

\* The mode check of api_charon_submit_query.
QueryModeRequired(mode) == mode # "QUERY"

\* Steps shared by both submit handlers once the request is accepted:
\* append the user message, generate, queue the draft.
SubmitAccepted(ch, query, status) ==
    LET qid == next_uuid + 1
        msg == QueryMessage(qid, query)
        history == AppendMessage(get_conversation(ch), msg)
    IN  /\ next_uuid + 2 <= MaxUuid
        /\ add_message(msg, ch)
        /\ \E res \in Generate(charon_ai, query, history) :
              IF res.raised
              THEN /\ UNCHANGED pending
                   /\ next_uuid' = next_uuid + 1
                   /\ status = "500"
              ELSE /\ add_pending_response(query, res.text, qid, next_uuid + 2, ch)
                   /\ next_uuid' = next_uuid + 2
                   /\ status = "200"
        /\ UNCHANGED <<last_read, active_view, charon_ai, threads, out>>
        /\ UNCHANGED <<ttl, loaderVars>>

\* A request answered with an error before it touched anything.
Refused(status, code) ==
    /\ status = code
    /\ UNCHANGED vars

\* api_charon_submit_query: the default-channel submit.
api_charon_submit_query(query, status) ==
    IF QueryModeRequired(active_view.charon_mode)
    THEN Refused(status, "403")
    ELSE IF query = ""
    THEN Refused(status, "400")
    ELSE SubmitAccepted("default", query, status)

\* The mode check of api_charon_channel_submit: the handler has none.
ChannelQueryModeRequired(mode) == FALSE

\* api_charon_channel_submit
api_charon_channel_submit(ch, query, status) ==
    IF ChannelQueryModeRequired(active_view.charon_mode)
    THEN Refused(status, "403")
    ELSE IF query = ""
    THEN Refused(status, "400")
    ELSE SubmitAccepted(ch, query, status)

\* msg = CharonMessage(role='charon', content=content)
GmMessage(id, content) == CharonMessage(id, "charon", content)

\* api_charon_channel_send (api_charon_send_message is the same on "default").
api_charon_channel_send(ch, content) ==
    /\ next_uuid + 1 <= MaxUuid
    /\ add_message(GmMessage(next_uuid + 1, content), ch)
    /\ next_uuid' = next_uuid + 1
    /\ UNCHANGED <<pending, last_read, active_view, charon_ai, threads, out>>
    /\ UNCHANGED <<ttl, loaderVars>>

\* query_id=str(uuid.uuid4()) of a GM prompt: a fresh uuid that no message and
\* no other draft carries, written as the negated pending id.
GmQueryId(pid) == 0 - pid

\* query=f"[GM Prompt] {prompt}"
GmPromptQuery(prompt) == "[GM Prompt] " \o prompt

\* The text handed to generate_response by api_charon_channel_generate
\* (no context_override given) and by api_charon_generate.
ChannelContextPrompt(prompt) ==
    "[GM PROMPT: " \o prompt \o "]\n\n\nGenerate a CHARON response based on this context."

ContextPrompt(prompt) ==
    "[GM CONTEXT: " \o prompt \o "]\n\nGenerate a CHARON response based on this context."

\* JsonResponse({'success': True, 'pending_id': pending_id, 'response': response})
GenerateBody(pending_id, response) == [pending_id |-> pending_id, response |-> response]

\* The body a generate handler answers with when generate_response returned
\* res: the id add_pending_response handed back, and the text.
GenerateReply(res) == GenerateBody(next_uuid + 1, res.text)

\* Steps shared by both generate handlers once the prompt is accepted and
\* generate_response has returned or raised res: queue the draft.
GenerateWith(ch, prompt, res, status) ==
    /\ next_uuid + 1 <= MaxUuid
    /\ IF res.raised
       THEN /\ UNCHANGED <<pending, next_uuid>>
            /\ status = "500"
       ELSE /\ add_pending_response(GmPromptQuery(prompt), res.text,
                                    GmQueryId(next_uuid + 1), next_uuid + 1, ch)
            /\ next_uuid' = next_uuid + 1
            /\ status = "200"
    /\ UNCHANGED <<conversation, active_channels, last_read, active_view, charon_ai,
                   threads, out>>
    /\ UNCHANGED <<ttl, loaderVars>>

\* api_charon_channel_generate
api_charon_channel_generate(ch, prompt, status) ==
    IF prompt = ""
    THEN Refused(status, "400")
    ELSE \E res \in Generate(charon_ai, ChannelContextPrompt(prompt), get_conversation(ch)) :
             GenerateWith(ch, prompt, res, status)

\* api_charon_generate: the default-channel generate.
api_charon_generate(prompt, status) ==
    IF prompt = ""
    THEN Refused(status, "400")
    ELSE \E res \in Generate(charon_ai, ContextPrompt(prompt), get_conversation("default")) :
             GenerateWith("default", prompt, res, status)

\* api_charon_channel_approve
api_charon_channel_approve(ch, pid, modified_content, status) ==
    /\ next_uuid + 1 <= MaxUuid
    /\ \E ok \in BOOLEAN :
          /\ approve_response(pid, modified_content, ch, next_uuid + 1, ok)
          /\ next_uuid' = IF ok THEN next_uuid + 1 ELSE next_uuid
          /\ status = IF ok THEN "200" ELSE "404"
    /\ UNCHANGED <<last_read, active_view, charon_ai, threads, out>>
    /\ UNCHANGED <<ttl, loaderVars>>

\* api_charon_channel_reject
api_charon_channel_reject(ch, pid, status) ==
    /\ \E ok \in BOOLEAN :
          /\ reject_response(pid, ch, ok)
          /\ status = IF ok THEN "200" ELSE "404"
    /\ UNCHANGED <<conversation, active_channels, last_read, active_view, charon_ai,
                   next_uuid, threads, out>>
    /\ UNCHANGED <<ttl, loaderVars>>

\* api_charon_channel_clear
api_charon_channel_clear(ch) ==
    /\ clear_conversation(ch)
    /\ UNCHANGED <<active_channels, last_read, active_view, charon_ai, next_uuid, threads, out>>
    /\ UNCHANGED <<ttl, loaderVars>>

\* api_charon_channel_mark_read
api_charon_channel_mark_read(ch) ==
    /\ mark_channel_read(ch)
    /\ UNCHANGED <<conversation, pending, active_channels, active_view, charon_ai,
                   next_uuid, threads, out>>
    /\ UNCHANGED <<ttl, loaderVars>>

\* api_charon_switch_mode
api_charon_switch_mode(mode) ==
    /\ active_view' = [active_view EXCEPT !.charon_mode = mode]
    /\ UNCHANGED <<storeVars, charon_ai, next_uuid, threads, out>>
    /\ UNCHANGED <<ttl, loaderVars>>

\* The channel api_switch_view clears: story on CHARON_TERMINAL, bridge on BRIDGE.
ClearedOnSwitch(view_type) ==
    IF view_type = "CHARON_TERMINAL" THEN {"story"}
    ELSE IF view_type = "BRIDGE" THEN {"bridge"}
    ELSE {}

\* api_switch_view.  Of the ActiveView row only charon_mode is state here: the
\* view, location, channel and encounter fields this handler writes are read
\* by none of these handlers, so its effect on them is left out.
api_switch_view(new_view_type) ==
    /\ UNCHANGED active_view
    /\ conversation' = [ch \in Channels |->
                           IF ch \in ClearedOnSwitch(new_view_type) THEN Deleted
                           ELSE conversation[ch]]
    /\ pending' = [ch \in Channels |->
                      IF ch \in ClearedOnSwitch(new_view_type) THEN Deleted
                      ELSE pending[ch]]
    /\ UNCHANGED <<active_channels, last_read, charon_ai, next_uuid, threads, out>>
    /\ UNCHANGED <<ttl, loaderVars>>

----------------------------------------------------------------------------
(* Spec: the handlers, called one at a time *)

\* active_view_store.py defaults / ActiveView field defaults
InitialView == [charon_mode |-> "DISPLAY"]

\* The default cache.get returns for the registry key.
SeededChannels == <<"default", "bridge">>

EmptyStore ==
    /\ conversation = [ch \in Channels |-> <<>>]
    /\ pending = [ch \in Channels |-> <<>>]
    /\ last_read = [ch \in Channels |-> NoMarker]
    /\ active_channels = SeededChannels

ConfigFile(fallbacks) ==
    Some([system_prompt |-> None, max_response_length |-> None,
          fallback_responses |-> fallbacks])

\* The deployments of this specification: a client with an empty fallback list
\* configured, and no client with one fallback line configured.
Deployments ==
    {CharonAI(ConfigFile(Some(<<>>)), TRUE), CharonAI(ConfigFile(Some(<<"f">>)), FALSE)}

NoThreads == <<>>

NoOut == [op |-> "none"]

\* The keys whose expiry is followed: the registry key and each conversation key.
RegistryKey == "active_channels"

TtlKeys == Channels \cup {RegistryKey}

\* No key is on the clock: nothing expires.
Untimed == ttl = [k \in TtlKeys |-> 0]

\* _charon_cache = {}
EmptyCache == <<>>

\* What a file path holds: nothing, a file that cannot be read or parsed, or a
\* file with its parsed content.
Absent == [kind |-> "absent"]

Unreadable == [kind |-> "unreadable"]

Parsed(value) == [kind |-> "parsed", value |-> value]

\* context.yaml, the location.yaml of each path, the vault note, instance.yaml
NoFiles == [context |-> Absent, yaml |-> <<>>, note |-> Absent, instance |-> Absent]

\* MessageAnnouncer.__init__: no listener, and so no queue.
NoListeners == [listeners |-> <<>>, queues |-> <<>>]

NoLoaders ==
    /\ charon_cache = EmptyCache
    /\ files = NoFiles
    /\ broadcaster = NoListeners

Init ==
    /\ EmptyStore
    /\ active_view = InitialView
    /\ charon_ai \in Deployments
    /\ next_uuid = 0
    /\ threads = NoThreads
    /\ out = NoOut
    /\ Untimed
    /\ NoLoaders

\* The pending ids a caller passes: every uuid handed out so far, and one that
\* never was (all such ids behave alike).
KnownIds == 1..(next_uuid + 1)

\* The pending ids the GM's requests name: the id of every draft queued on
\* some channel, and one id that is queued nowhere (an id that is in no queue
\* is not found, whichever it is).
RequestIds ==
    UNION {{pending[ch][i].pending_id : i \in 1..Len(pending[ch])} : ch \in Channels}
        \cup {next_uuid + 1}

Next ==
    \/ \E q \in Queries \cup {""}, st \in Statuses : api_charon_submit_query(q, st)
    \/ \E ch \in Channels, q \in Queries \cup {""}, st \in Statuses :
          api_charon_channel_submit(ch, q, st)
    \/ \E ch \in Channels, c \in GmContents : api_charon_channel_send(ch, c)
    \/ \E ch \in Channels, p \in Queries \cup {""}, st \in Statuses :
          api_charon_channel_generate(ch, p, st)
    \/ \E p \in Queries \cup {""}, st \in Statuses : api_charon_generate(p, st)
    \/ \E ch \in Channels, pid \in RequestIds, m \in Overrides, st \in Statuses :
          api_charon_channel_approve(ch, pid, m, st)
    \/ \E ch \in Channels, pid \in RequestIds, st \in Statuses :
          api_charon_channel_reject(ch, pid, st)
    \/ \E ch \in Channels : api_charon_channel_clear(ch)
    \/ \E ch \in Channels : api_charon_channel_mark_read(ch)
    \/ \E m \in Modes : api_charon_switch_mode(m)
    \/ \E vt \in ViewTypes : api_switch_view(vt)

Spec == Init /\ [][Next]_vars

----------------------------------------------------------------------------
(* StoreSpec: the CharonSessionManager methods, called one at a time with    *)
(* any arguments.  out holds what the call returned.                         *)

Roles == {"user", "charon", "pending"}

Responses == {"r"}

\* What a store method returned: True, False, None, or a new pending id.
Ret(ret, id) == [op |-> "store", ret |-> ret, id |-> id]

Bool(ok) == IF ok THEN "True" ELSE "False"

StoreAddMessage(ch, role, content) ==
    /\ next_uuid + 1 <= MaxUuid
    /\ add_message(CharonMessage(next_uuid + 1, role, content), ch)
    /\ next_uuid' = next_uuid + 1
    /\ out' = Ret("None", 0)
    /\ UNCHANGED <<pending, last_read, active_view, charon_ai, threads>>
    /\ UNCHANGED <<ttl, loaderVars>>

\* The query_id passed is the id of the object created last, as in the handlers.
StoreAddPending(ch, query, response) ==
    /\ next_uuid + 1 <= MaxUuid
    /\ add_pending_response(query, response, next_uuid, next_uuid + 1, ch)
    /\ next_uuid' = next_uuid + 1
    /\ out' = Ret("id", next_uuid + 1)
    /\ UNCHANGED <<conversation, active_channels, last_read, active_view, charon_ai, threads>>
    /\ UNCHANGED <<ttl, loaderVars>>

StoreApprove(ch, pid, modified_content, ok) ==
    /\ next_uuid + 1 <= MaxUuid
    /\ approve_response(pid, modified_content, ch, next_uuid + 1, ok)
    /\ next_uuid' = IF ok THEN next_uuid + 1 ELSE next_uuid
    /\ out' = Ret(Bool(ok), 0)
    /\ UNCHANGED <<last_read, active_view, charon_ai, threads>>
    /\ UNCHANGED <<ttl, loaderVars>>

StoreReject(ch, pid, ok) ==
    /\ reject_response(pid, ch, ok)
    /\ out' = Ret(Bool(ok), 0)
    /\ UNCHANGED <<conversation, active_channels, last_read, active_view, charon_ai,
                   next_uuid, threads>>
    /\ UNCHANGED <<ttl, loaderVars>>

StoreClear(ch) ==
    /\ clear_conversation(ch)
    /\ out' = Ret("None", 0)
    /\ UNCHANGED <<active_channels, last_read, active_view, charon_ai, next_uuid, threads>>
    /\ UNCHANGED <<ttl, loaderVars>>

StoreMarkRead(ch) ==
    /\ mark_channel_read(ch)
    /\ out' = Ret("None", 0)
    /\ UNCHANGED <<conversation, pending, active_channels, active_view, charon_ai,
                   next_uuid, threads>>
    /\ UNCHANGED <<ttl, loaderVars>>

StoreRegister(ch) ==
    /\ active_channels' = register_channel(active_channels, ch)
    /\ out' = Ret("None", 0)
    /\ UNCHANGED <<conversation, pending, last_read, active_view, charon_ai,
                   next_uuid, threads>>
    /\ UNCHANGED <<ttl, loaderVars>>

StoreInit ==
    /\ EmptyStore
    /\ active_view = InitialView
    /\ charon_ai = CharonAI(None, FALSE)
    /\ next_uuid = 0
    /\ threads = NoThreads
    /\ out = NoOut
    /\ Untimed
    /\ NoLoaders

StoreNext ==
    \/ \E ch \in Channels, role \in Roles, c \in GmContents : StoreAddMessage(ch, role, c)
    \/ \E ch \in Channels, q \in Queries, r \in Responses : StoreAddPending(ch, q, r)
    \/ \E ch \in Channels, pid \in KnownIds, m \in Overrides, ok \in BOOLEAN :
          StoreApprove(ch, pid, m, ok)
    \/ \E ch \in Channels, pid \in KnownIds, ok \in BOOLEAN : StoreReject(ch, pid, ok)
    \/ \E ch \in Channels : StoreClear(ch)
    \/ \E ch \in Channels : StoreMarkRead(ch)
    \/ \E ch \in Channels : StoreRegister(ch)

StoreSpec == StoreInit /\ [][StoreNext]_vars

----------------------------------------------------------------------------
(* RaceSpec: two add_message calls on one channel, their cache reads and     *)
(* cache writes interleaved.  cache.get hands each call its own copy of the  *)
(* list.  threads.writes logs the order of the conversation writes.          *)

MaxPre == 2

Callers == {1, 2}

RaceChannel == "story"

RaceRoles == {"user", "charon"}

\* The conversations the two calls may find: ids in insertion order.
PreLists ==
    UNION {{[i \in 1..n |-> CharonMessage(i, r[i], "x")] : r \in [1..n -> RaceRoles]}
              : n \in 0..MaxPre}

\* conversation = get_conversation(channel)
RaceRead(t) ==
    /\ threads.pc[t] = "start"
    /\ threads' = [threads EXCEPT !.pc[t] = "read",
                                  !.local[t] = get_conversation(RaceChannel)]
    /\ UNCHANGED <<storeVars, active_view, charon_ai, next_uuid, out>>
    /\ UNCHANGED <<ttl, loaderVars>>

\* conversation.append(...); cache.set(<conversation key>, conversation)
RaceWrite(t) ==
    /\ threads.pc[t] = "read"
    /\ conversation' = [conversation EXCEPT
                           ![RaceChannel] = AppendMessage(threads.local[t], threads.msg[t])]
    /\ threads' = [threads EXCEPT !.pc[t] = "written", !.writes = Append(@, t)]
    /\ UNCHANGED <<pending, last_read, active_channels, active_view, charon_ai, next_uuid, out>>
    /\ UNCHANGED <<ttl, loaderVars>>

\* register_channel: channels = cache.get(<registry key>, seeded)
RaceRegisterRead(t) ==
    /\ threads.pc[t] = "written"
    /\ threads' = [threads EXCEPT !.pc[t] = "registering", !.channels[t] = active_channels]
    /\ UNCHANGED <<storeVars, active_view, charon_ai, next_uuid, out>>
    /\ UNCHANGED <<ttl, loaderVars>>

\* register_channel: the write, made only when the name was not in the list read.
RaceRegisterWrite(t) ==
    /\ threads.pc[t] = "registering"
    /\ IF RaceChannel \in Range(threads.channels[t])
       THEN UNCHANGED active_channels
       ELSE active_channels' = register_channel(threads.channels[t], RaceChannel)
    /\ threads' = [threads EXCEPT !.pc[t] = "done"]
    /\ UNCHANGED <<conversation, pending, last_read, active_view, charon_ai, next_uuid, out>>
    /\ UNCHANGED <<ttl, loaderVars>>

RaceInit ==
    /\ \E pre \in PreLists, r \in [Callers -> RaceRoles] :
          /\ conversation = [ch \in Channels |-> IF ch = RaceChannel THEN pre ELSE <<>>]
          /\ threads = [pc |-> [t \in Callers |-> "start"],
                        msg |-> [t \in Callers |-> CharonMessage(Len(pre) + t, r[t], "x")],
                        local |-> [t \in Callers |-> <<>>],
                        channels |-> [t \in Callers |-> <<>>],
                        pre |-> pre,
                        writes |-> <<>>]
          /\ next_uuid = Len(pre) + 2
    /\ pending = [ch \in Channels |-> <<>>]
    /\ last_read = [ch \in Channels |-> NoMarker]
    /\ active_channels = SeededChannels
    /\ active_view = InitialView
    /\ charon_ai = CharonAI(None, FALSE)
    /\ out = NoOut
    /\ Untimed
    /\ NoLoaders

RaceNext ==
    \/ \E t \in Callers : RaceRead(t)
    \/ \E t \in Callers : RaceWrite(t)
    \/ \E t \in Callers : RaceRegisterRead(t)
    \/ \E t \in Callers : RaceRegisterWrite(t)

RaceSpec == RaceInit /\ [][RaceNext]_vars

----------------------------------------------------------------------------
(* DisposalSpec: two calls among approve_response, reject_response and        *)
(* add_pending_response on one channel, their cache reads and cache writes   *)
(* interleaved.  cache.get hands each call its own copy of a list; what a    *)
(* call does between two cache accesses is part of the later access.         *)

DisposalOps == {"approve", "reject", "add_pending"}

\* The drafts queued before the calls: pending ids 1..n, each with its own text.
Draft(pid) == PendingEntry(pid, pid, "q", <<"r", pid>>)

Queues == {[i \in 1..n |-> Draft(i)] : n \in 1..MaxPre}

\* The draft of an add_pending_response call.
NewDraft(t) == PendingEntry(threads.pid[t], threads.pid[t], "q", <<"r", threads.pid[t]>>)

\* The entry the for-loop of the call stops at, in the list the call read.
FoundItem(t) == threads.pending[t][FindPending(threads.pending[t], threads.pid[t])]

\* pending = get_pending_responses(channel), and the loop over that list: a
\* call that finds no entry returns False.
DisposalRead(t) ==
    /\ threads.pc[t] = "start"
    /\ LET pend == get_pending_responses(RaceChannel)
           found == FindPending(pend, threads.pid[t]) # 0
       IN  threads' = [threads EXCEPT
                          !.pending[t] = pend,
                          !.pc[t] = IF threads.op[t] = "add_pending" THEN "appending"
                                    ELSE IF ~found THEN "done"
                                    ELSE IF threads.op[t] = "approve" THEN "approving"
                                    ELSE "removing",
                          !.ret[t] = IF threads.op[t] # "add_pending" /\ ~found
                                     THEN Some(FALSE) ELSE None]
    /\ UNCHANGED <<storeVars, active_view, charon_ai, next_uuid, out, ttl, loaderVars>>

\* add_pending_response: pending.append(...); cache.set(<pending key>, pending)
AddPendingWrite(t) ==
    /\ threads.pc[t] = "appending"
    /\ pending' = [pending EXCEPT ![RaceChannel] = Append(threads.pending[t], NewDraft(t))]
    /\ threads' = [threads EXCEPT !.pc[t] = "done", !.ret[t] = Some(threads.pid[t])]
    /\ UNCHANGED <<conversation, last_read, active_channels, active_view, charon_ai,
                   next_uuid, out, ttl, loaderVars>>

\* approve_response, in add_message: conversation = get_conversation(channel)
ApproveRead(t) ==
    /\ threads.pc[t] = "approving"
    /\ threads' = [threads EXCEPT !.pc[t] = "read", !.local[t] = get_conversation(RaceChannel)]
    /\ UNCHANGED <<storeVars, active_view, charon_ai, next_uuid, out, ttl, loaderVars>>

\* approve_response, in add_message: the write of the conversation key.
ApproveWrite(t) ==
    /\ threads.pc[t] = "read"
    /\ conversation' = [conversation EXCEPT ![RaceChannel] =
                           AppendMessage(threads.local[t],
                                         CharonMessage(threads.mid[t], "charon",
                                                       ApprovedContent(FoundItem(t), None)))]
    /\ threads' = [threads EXCEPT !.pc[t] = "written"]
    /\ UNCHANGED <<pending, last_read, active_channels, active_view, charon_ai,
                   next_uuid, out, ttl, loaderVars>>

\* approve_response, in register_channel: the read of the registry key.
ApproveRegisterRead(t) ==
    /\ threads.pc[t] = "written"
    /\ threads' = [threads EXCEPT !.pc[t] = "registering", !.channels[t] = active_channels]
    /\ UNCHANGED <<storeVars, active_view, charon_ai, next_uuid, out, ttl, loaderVars>>

\* approve_response, in register_channel: the write, made only when the name
\* was not in the list read.
ApproveRegisterWrite(t) ==
    /\ threads.pc[t] = "registering"
    /\ IF RaceChannel \in Range(threads.channels[t])
       THEN UNCHANGED active_channels
       ELSE active_channels' = register_channel(threads.channels[t], RaceChannel)
    /\ threads' = [threads EXCEPT !.pc[t] = "removing"]
    /\ UNCHANGED <<conversation, pending, last_read, active_view, charon_ai,
                   next_uuid, out, ttl, loaderVars>>

\* approve_response and reject_response: pending.remove(item);
\* cache.set(<pending key>, pending); return True
RemoveWrite(t) ==
    /\ threads.pc[t] = "removing"
    /\ pending' = [pending EXCEPT ![RaceChannel] = ListRemove(threads.pending[t], FoundItem(t))]
    /\ threads' = [threads EXCEPT !.pc[t] = "done", !.ret[t] = Some(TRUE)]
    /\ UNCHANGED <<conversation, last_read, active_channels, active_view, charon_ai,
                   next_uuid, out, ttl, loaderVars>>

DisposalInit ==
    /\ \E pre \in Queues, op \in [Callers -> DisposalOps], target \in [Callers -> 1..MaxPre] :
          /\ pending = [ch \in Channels |-> IF ch = RaceChannel THEN pre ELSE <<>>]
          /\ threads = [pc |-> [t \in Callers |-> "start"],
                        op |-> op,
                        pid |-> [t \in Callers |-> IF op[t] = "add_pending"
                                                   THEN MaxPre + t ELSE target[t]],
                        mid |-> [t \in Callers |-> MaxPre + Cardinality(Callers) + t],
                        pending |-> [t \in Callers |-> <<>>],
                        local |-> [t \in Callers |-> <<>>],
                        channels |-> [t \in Callers |-> <<>>],
                        ret |-> [t \in Callers |-> None],
                        pre |-> pre]
    /\ conversation = [ch \in Channels |-> <<>>]
    /\ last_read = [ch \in Channels |-> NoMarker]
    /\ active_channels = SeededChannels
    /\ active_view = InitialView
    /\ charon_ai = CharonAI(None, FALSE)
    /\ next_uuid = MaxPre + 2 * Cardinality(Callers)
    /\ out = NoOut
    /\ Untimed
    /\ NoLoaders

DisposalNext ==
    \/ \E t \in Callers : DisposalRead(t)
    \/ \E t \in Callers : AddPendingWrite(t)
    \/ \E t \in Callers : ApproveRead(t)
    \/ \E t \in Callers : ApproveWrite(t)
    \/ \E t \in Callers : ApproveRegisterRead(t)
    \/ \E t \in Callers : ApproveRegisterWrite(t)
    \/ \E t \in Callers : RemoveWrite(t)

DisposalSpec == DisposalInit /\ [][DisposalNext]_vars

----------------------------------------------------------------------------
(* AISpec: generate_response on every configuration *)

MaxFallbacks == 2

FallbackLines == {"f1", "f2"}

FallbackLists == UNION {[1..n -> FallbackLines] : n \in 0..MaxFallbacks}

Optional(S) == {None} \cup {Some(x) : x \in S}

\* context.yaml: absent, or a record each of whose fields may be absent.
ConfigFiles ==
    Optional([system_prompt : Optional({"p"}),
              max_response_length : Optional({100}),
              fallback_responses : Optional(FallbackLists)])

AIGenerate(query, history) ==
    /\ \E reply \in ModelCall(ModelRequest(charon_ai, query, history)) :
          \E res \in generate_response(charon_ai, query, history, reply) :
              out' = [op |-> "generate_response",
                      model_raised |-> charon_ai.client /\ reply.raised,
                      raised |-> res.raised,
                      text |-> res.text]
    /\ UNCHANGED <<storeVars, active_view, charon_ai, next_uuid, threads>>
    /\ UNCHANGED <<ttl, loaderVars>>

AIInit ==
    /\ EmptyStore
    /\ active_view = InitialView
    /\ \E cf \in ConfigFiles, has_client \in BOOLEAN : charon_ai = CharonAI(cf, has_client)
    /\ next_uuid = 0
    /\ threads = NoThreads
    /\ out = NoOut
    /\ Untimed
    /\ NoLoaders

AINext == \E q \in Queries : AIGenerate(q, <<>>)

AISpec == AIInit /\ [][AINext]_vars

----------------------------------------------------------------------------
(* InputSpec: player submits on a channel whose conversation is longer than  *)
(* the history window.  out holds the arguments of client.messages.create,   *)
(* if the call was made.                                                     *)

MaxHistory == 11

\* The conversations found: n messages, ids in insertion order, each with its
\* own content, the roles repeating a pattern of three.
Histories ==
    {[i \in 1..n |-> CharonMessage(i, pattern[(i % 3) + 1], <<"m", i>>)] :
        n \in 0..MaxHistory, pattern \in [1..3 -> Roles]}

\* api_charon_channel_submit, the request accepted: the user message is
\* appended, then the conversation is read and handed to generate_response,
\* then the draft is queued.
SubmitModelInput(ch, query, status) ==
    LET qid == next_uuid + 1
        msg == QueryMessage(qid, query)
        history == AppendMessage(get_conversation(ch), msg)
    IN  /\ Len(get_conversation(ch)) <= MaxHistory
        /\ add_message(msg, ch)
        /\ \E reply \in ModelCall(ModelRequest(charon_ai, query, history)) :
              \E res \in generate_response(charon_ai, query, history, reply) :
                  /\ IF res.raised
                     THEN /\ UNCHANGED pending
                          /\ next_uuid' = next_uuid + 1
                          /\ status = "500"
                     ELSE /\ add_pending_response(query, res.text, qid, next_uuid + 2, ch)
                          /\ next_uuid' = next_uuid + 2
                          /\ status = "200"
                  /\ out' = [op |-> "api_charon_channel_submit", channel |-> ch,
                             query |-> query,
                             request |-> IF charon_ai.client
                                         THEN Some(ModelRequest(charon_ai, query, history))
                                         ELSE None]
        /\ UNCHANGED <<last_read, active_view, charon_ai, threads, ttl, loaderVars>>

InputInit ==
    /\ \E history \in Histories :
          /\ conversation = [ch \in Channels |-> IF ch = RaceChannel THEN history ELSE <<>>]
          /\ next_uuid = Len(history)
    /\ pending = [ch \in Channels |-> <<>>]
    /\ last_read = [ch \in Channels |-> NoMarker]
    /\ active_channels = SeededChannels
    /\ active_view = InitialView
    /\ \E has_client \in BOOLEAN : charon_ai = CharonAI(None, has_client)
    /\ threads = NoThreads
    /\ out = NoOut
    /\ Untimed
    /\ NoLoaders

InputNext ==
    \E query \in Queries, status \in Statuses : SubmitModelInput(RaceChannel, query, status)

InputSpec == InputInit /\ [][InputNext]_vars

----------------------------------------------------------------------------
(* UnreadSpec: get_unread_count on every conversation and marker *)

MaxConvLen == 3

UnreadChannel == "default"

\* CharonMessage takes a caller-supplied message_id, so ids may repeat.
Conversations ==
    UNION {[1..n -> {CharonMessage(id, role, "x") : id \in 1..MaxConvLen, role \in Roles}]
              : n \in 0..MaxConvLen}

\* get_unread_count(channel, last_read_message_id), as api_charon_channels
\* calls it with the stored marker's id, or with None.
UnreadCount(marker) ==
    /\ out' = [op |-> "get_unread_count",
               marker |-> marker,
               count |-> get_unread_count(get_conversation(UnreadChannel), marker)]
    /\ UNCHANGED <<storeVars, active_view, charon_ai, next_uuid, threads>>
    /\ UNCHANGED <<ttl, loaderVars>>

UnreadInit ==
    /\ \E conv \in Conversations :
          conversation = [ch \in Channels |-> IF ch = UnreadChannel THEN conv ELSE <<>>]
    /\ pending = [ch \in Channels |-> <<>>]
    /\ last_read = [ch \in Channels |-> NoMarker]
    /\ active_channels = SeededChannels
    /\ active_view = InitialView
    /\ charon_ai = CharonAI(None, FALSE)
    /\ next_uuid = 0
    /\ threads = NoThreads
    /\ out = NoOut
    /\ Untimed
    /\ NoLoaders

UnreadNext == \E marker \in {NoMarker} \cup (1..(MaxConvLen + 1)) : UnreadCount(marker)

UnreadSpec == UnreadInit /\ [][UnreadNext]_vars

----------------------------------------------------------------------------
(* TtlSpec: add_message and register_channel, called one at a time, and the   *)
(* passing of time.  Every cache.set gives its key the full time to live; a  *)
(* key whose time has run out reads as the default passed to cache.get.      *)

\* CACHE_TTL (four hours), counted in ticks of the clock.
CacheTtlTicks == 2

\* cache.set(key, value, CACHE_TTL)
CacheSet(t, key) == [t EXCEPT ![key] = CacheTtlTicks]

\* The keys a register_channel call writes: the registry key, when the name
\* was not in the list read.
RegisterSet(t, ch) ==
    IF ch \in Range(active_channels) THEN t ELSE CacheSet(t, RegistryKey)

TtlAddMessage(ch, content) ==
    /\ next_uuid + 1 <= MaxUuid
    /\ add_message(CharonMessage(next_uuid + 1, "user", content), ch)
    /\ next_uuid' = next_uuid + 1
    /\ ttl' = RegisterSet(CacheSet(ttl, ch), ch)
    /\ UNCHANGED <<pending, last_read, active_view, charon_ai, threads, out, loaderVars>>

TtlRegister(ch) ==
    /\ active_channels' = register_channel(active_channels, ch)
    /\ ttl' = RegisterSet(ttl, ch)
    /\ UNCHANGED <<conversation, pending, last_read, active_view, charon_ai, next_uuid,
                   threads, out, loaderVars>>

\* One tick passes: the keys on their last tick expire.
Tick ==
    /\ \E k \in TtlKeys : ttl[k] > 0
    /\ ttl' = [k \in TtlKeys |-> IF ttl[k] > 0 THEN ttl[k] - 1 ELSE 0]
    /\ conversation' = [ch \in Channels |->
                           IF ttl[ch] = 1 THEN Deleted ELSE conversation[ch]]
    /\ active_channels' = IF ttl[RegistryKey] = 1 THEN SeededChannels ELSE active_channels
    /\ UNCHANGED <<pending, last_read, active_view, charon_ai, next_uuid, threads, out,
                   loaderVars>>

TtlInit == StoreInit

TtlNext ==
    \/ \E ch \in Channels, c \in GmContents : TtlAddMessage(ch, c)
    \/ \E ch \in Channels : TtlRegister(ch)
    \/ Tick

TtlSpec == TtlInit /\ [][TtlNext]_vars

----------------------------------------------------------------------------
(* CacheSpec: get_charon_ai and clear_charon_cache, called one at a time,    *)
(* while context.yaml is edited.  A location path is the sequence of its     *)
(* segments, "" the empty sequence.  The identity of a CharonAI object is    *)
(* the number of its construction.                                           *)

NoLocationKey == <<"__no_location__">>

\* not location_path
Falsy(location_path) == location_path = None \/ location_path = Some(<<>>)

\* Mutant: only an absent path takes the "no location" key.
CacheKeyVerbatim(location_path) ==
    IF location_path = None THEN NoLocationKey ELSE location_path[1]

\* cache_key = location_path or '__no_location__'
CacheKey(location_path) ==
    IF Falsy(location_path) THEN NoLocationKey ELSE location_path[1]

\* _charon_cache[cache_key] = instance
CachePut(cache, key, instance) ==
    [k \in DOMAIN cache \cup {key} |-> IF k = key THEN instance ELSE cache[k]]

\* What _load_config reads from context.yaml.
FileConfig(file) == IF file.kind = "parsed" THEN Some(file.value) ELSE None

\* CharonAI(location_path=location_path), the id-th object constructed.
NewInstance(id, location_path, has_client) ==
    [id |-> id, location_path |-> location_path,
     ai |-> CharonAI(FileConfig(files.context), has_client)]

NoInstance == [id |-> 0]

Returned(key, raised, instance) ==
    [op |-> "get_charon_ai", key |-> key, raised |-> raised, instance |-> instance]

\* get_charon_ai(location_path).  A context.yaml that does not parse makes
\* _load_config, and with it the constructor, raise.
get_charon_ai(location_path) ==
    LET key == CacheKey(location_path)
    IN  /\ IF key \in DOMAIN charon_cache
           THEN /\ out' = Returned(key, FALSE, charon_cache[key])
                /\ UNCHANGED <<charon_cache, next_uuid>>
           ELSE IF files.context.kind = "unreadable"
           THEN /\ out' = Returned(key, TRUE, NoInstance)
                /\ UNCHANGED <<charon_cache, next_uuid>>
           ELSE /\ next_uuid + 1 <= MaxUuid
                /\ \E has_client \in BOOLEAN :
                      LET instance == NewInstance(next_uuid + 1, location_path, has_client)
                      IN  /\ charon_cache' = CachePut(charon_cache, key, instance)
                          /\ out' = Returned(key, FALSE, instance)
                /\ next_uuid' = next_uuid + 1
        /\ UNCHANGED <<storeVars, active_view, charon_ai, threads, ttl, files, broadcaster>>

\* clear_charon_cache()
clear_charon_cache ==
    /\ charon_cache' = EmptyCache
    /\ out' = [op |-> "clear_charon_cache"]
    /\ UNCHANGED <<storeVars, active_view, charon_ai, next_uuid, threads, ttl, files, broadcaster>>

\* The contents context.yaml goes through.
ContextFiles ==
    {Absent, Unreadable, Parsed(ConfigFile(Some(<<"f">>))[1]), Parsed(ConfigFile(None)[1])}

\* The GM edits context.yaml.
EditContext(file) ==
    /\ file # files.context
    /\ files' = [files EXCEPT !.context = file]
    /\ UNCHANGED <<storeVars, active_view, charon_ai, next_uuid, threads, out, ttl,
                   charon_cache, broadcaster>>

\* The location paths requested: none, the empty path, two locations.
LocationPaths == {None, Some(<<>>), Some(<<"sol">>), Some(<<"sol", "earth">>)}

CacheInit ==
    /\ EmptyStore
    /\ active_view = InitialView
    /\ charon_ai = CharonAI(None, FALSE)
    /\ next_uuid = 0
    /\ threads = NoThreads
    /\ out = NoOut
    /\ Untimed
    /\ charon_cache = EmptyCache
    /\ broadcaster = NoListeners
    /\ files \in {[NoFiles EXCEPT !.context = file] : file \in ContextFiles}

CacheNext ==
    \/ \E location_path \in LocationPaths : get_charon_ai(location_path)
    \/ clear_charon_cache
    \/ \E file \in ContextFiles : EditContext(file)

CacheSpec == CacheInit /\ [][CacheNext]_vars

----------------------------------------------------------------------------
(* LocationSpec: get_charon_location_path on every ActiveView row.  The     *)
(* row carries here the three fields the function reads.                     *)

Location(slug, children) == [slug |-> slug, children |-> children]

\* DataLoader.load_all_locations(): the directories under the galaxy root.
AllLocations ==
    <<Location("sol", <<Location("earth", <<Location("base", <<>>)>>)>>),
      Location("tau", <<>>)>>

\* DataLoader.get_location_path(slug, locations, path): depth-first search,
\* None when no location carries the slug.
RECURSIVE get_location_path(_, _, _)
get_location_path(slug, locations, path) ==
    IF locations = <<>> THEN None
    ELSE LET location == Head(locations)
             current_path == path \o <<location.slug>>
             found_path == IF location.children # <<>>
                           THEN get_location_path(slug, location.children, current_path)
                           ELSE None
         IN  IF location.slug = slug THEN Some(current_path)
             ELSE IF found_path # None /\ found_path # Some(<<>>) THEN found_path
             ELSE get_location_path(slug, Tail(locations), path)

\* if active_view.charon_location_path: return it; return None
ExplicitLocation(view) ==
    IF view.charon_location_path # <<>> THEN Some(view.charon_location_path) ELSE None

\* Mutant: the explicitly set path is looked at first.
ExplicitLocationFirst(view) ==
    IF view.charon_location_path # <<>> THEN Some(view.charon_location_path)
    ELSE IF view.view_type = "ENCOUNTER" /\ view.location_slug # ""
    THEN get_location_path(view.location_slug, AllLocations, <<>>)
    ELSE None

\* get_charon_location_path(active_view)
get_charon_location_path(view) ==
    IF view.view_type = "ENCOUNTER" /\ view.location_slug # ""
    THEN LET path_slugs == get_location_path(view.location_slug, AllLocations, <<>>)
         IN  IF path_slugs # None /\ path_slugs # Some(<<>>)
             THEN path_slugs
             ELSE ExplicitLocation(view)
    ELSE ExplicitLocation(view)

LocationSlugs == {"", "sol", "earth", "base", "ghost"}

ExplicitPaths == {<<>>, <<"tau">>, <<"sol", "earth">>}

ActiveViews ==
    [charon_mode : {"DISPLAY"}, view_type : ViewTypes, location_slug : LocationSlugs,
     charon_location_path : ExplicitPaths]

ResolveLocation ==
    /\ out' = [op |-> "get_charon_location_path",
               path |-> get_charon_location_path(active_view)]
    /\ UNCHANGED <<storeVars, active_view, charon_ai, next_uuid, threads, ttl, loaderVars>>

\* A channel name here is the sequence of its parts: "encounter-" when the
\* name starts with it, then the rest of the name when there is one.
EncounterPrefix == <<"encounter-">>

\* channel[len('encounter-'):]
ChannelSlug(channel) ==
    IF Len(channel) > Len(EncounterPrefix) THEN channel[Len(EncounterPrefix) + 1] ELSE ""

\* api_charon_channel_generate: the location path handed to get_charon_ai,
\* taken from the channel name.
ChannelLocationPath(channel) ==
    IF startswith(channel, EncounterPrefix)
    THEN LET path_slugs == get_location_path(ChannelSlug(channel), AllLocations, <<>>)
         IN  IF path_slugs # None /\ path_slugs # Some(<<>>) THEN path_slugs ELSE None
    ELSE None

LocationChannels ==
    {<<"default">>, <<"story">>, EncounterPrefix,
     <<"encounter-", "base">>, <<"encounter-", "ghost">>}

\* The get_charon_ai call of api_charon_channel_generate.
GenerateLocation(channel) ==
    /\ out' = [op |-> "api_charon_channel_generate", channel |-> channel,
               cache_key |-> CacheKey(ChannelLocationPath(channel))]
    /\ UNCHANGED <<storeVars, active_view, charon_ai, next_uuid, threads, ttl, loaderVars>>

\* The get_charon_ai call of api_charon_channel_submit.
SubmitLocation(channel) ==
    /\ out' = [op |-> "api_charon_channel_submit", channel |-> channel,
               cache_key |-> CacheKey(get_charon_location_path(active_view))]
    /\ UNCHANGED <<storeVars, active_view, charon_ai, next_uuid, threads, ttl, loaderVars>>

LocationInit ==
    /\ EmptyStore
    /\ active_view \in ActiveViews
    /\ charon_ai = CharonAI(None, FALSE)
    /\ next_uuid = 0
    /\ threads = NoThreads
    /\ out = NoOut
    /\ Untimed
    /\ NoLoaders

LocationNext ==
    \/ ResolveLocation
    \/ \E channel \in LocationChannels : GenerateLocation(channel)
    \/ \E channel \in LocationChannels : SubmitLocation(channel)

LocationSpec == LocationInit /\ [][LocationNext]_vars

----------------------------------------------------------------------------
(* charon_knowledge.py : the lore filters.  A string is the sequence of its  *)
(* characters; a note is the sequence of its lines (content.split), a line   *)
(* being a heading, "#"*level + " " + name, or a body line.  A filter        *)
(* returns the positions of the lines it appends to result.                  *)

Heading(level, name) == [kind |-> "heading", level |-> level, name |-> name]

BodyLine == [kind |-> "body", level |-> 0, name |-> <<>>]

\* header_match = re.match(r'^(#{1,6})\s+(.+)$', line)
header_match(line) == line.kind = "heading"

LowerChar(c) ==
    CASE c = "G" -> "g" [] c = "M" -> "m" [] c = "N" -> "n" [] c = "O" -> "o"
      [] c = "H" -> "h" [] c = "S" -> "s" [] OTHER -> c

\* str.lower()
lower(str) == [i \in 1..Len(str) |-> LowerChar(str[i])]

\* sub in str
contains(str, sub) ==
    \E i \in 0..(Len(str) - Len(sub)) : SubSeq(str, i + 1, i + Len(sub)) = sub

\* re.match(pattern, section_name, re.IGNORECASE), pattern being r'^' + literal
re_match(literal, section_name) == startswith(lower(section_name), lower(literal))

\* excluded = any(re.match(pattern, section_name, re.IGNORECASE) ...)
excluded(section_name, exclude_patterns) ==
    \E k \in 1..Len(exclude_patterns) : re_match(exclude_patterns[k], section_name)

\* is_allowed = any(name.lower().startswith(a.lower()) or a.lower() in name.lower() ...)
is_allowed(section_name, allowed_sections) ==
    \E k \in 1..Len(allowed_sections) :
        \/ startswith(lower(section_name), lower(allowed_sections[k]))
        \/ contains(lower(section_name), lower(allowed_sections[k]))

\* The locals of _extract_sections before the loop.
ExtractStart == [result |-> <<>>, current_level |-> 0, in_allowed_section |-> FALSE]

\* Mutant: the allow-list is consulted before the deny patterns.
ExtractLineAllowFirst(st, i, line, allowed_sections, exclude_patterns) ==
    IF header_match(line)
    THEN IF is_allowed(line.name, allowed_sections)
         THEN [result |-> Append(st.result, i), current_level |-> line.level,
               in_allowed_section |-> TRUE]
         ELSE IF excluded(line.name, exclude_patterns)
         THEN [st EXCEPT !.in_allowed_section = FALSE]
         ELSE st
    ELSE IF st.in_allowed_section
    THEN [st EXCEPT !.result = Append(@, i)]
    ELSE st

\* One pass of the loop of _extract_sections, on line i.
ExtractLine(st, i, line, allowed_sections, exclude_patterns) ==
    IF header_match(line)
    THEN IF excluded(line.name, exclude_patterns)
         THEN [st EXCEPT !.in_allowed_section = FALSE]
         ELSE IF is_allowed(line.name, allowed_sections)
         THEN [result |-> Append(st.result, i), current_level |-> line.level,
               in_allowed_section |-> TRUE]
         ELSE IF st.in_allowed_section
         THEN IF line.level > st.current_level
              THEN [st EXCEPT !.result = Append(@, i)]
              ELSE [st EXCEPT !.in_allowed_section = FALSE]
         ELSE st
    ELSE IF st.in_allowed_section
    THEN [st EXCEPT !.result = Append(@, i)]
    ELSE st

RECURSIVE ExtractLoop(_, _, _, _, _)
ExtractLoop(st, i, lines, allowed_sections, exclude_patterns) ==
    IF i > Len(lines) THEN st
    ELSE ExtractLoop(ExtractLine(st, i, lines[i], allowed_sections, exclude_patterns),
                     i + 1, lines, allowed_sections, exclude_patterns)

\* _extract_sections(content, allowed_sections, exclude_patterns)
extract_sections(lines, allowed_sections, exclude_patterns) ==
    ExtractLoop(ExtractStart, 1, lines, allowed_sections, exclude_patterns).result

\* skip_until_level = None
NoLevel == 0

\* The locals of _apply_exclusions before the loop.
ExclusionStart == [result |-> <<>>, skip_until_level |-> NoLevel]

\* One pass of the loop of _apply_exclusions, on line i.
ExclusionLine(st, i, line, exclude_patterns) ==
    IF header_match(line)
    THEN IF excluded(line.name, exclude_patterns)
         THEN [st EXCEPT !.skip_until_level = line.level]
         ELSE IF st.skip_until_level # NoLevel
         THEN IF line.level <= st.skip_until_level
              THEN [result |-> Append(st.result, i), skip_until_level |-> NoLevel]
              ELSE st
         ELSE [st EXCEPT !.result = Append(@, i)]
    ELSE IF st.skip_until_level = NoLevel
    THEN [st EXCEPT !.result = Append(@, i)]
    ELSE st

RECURSIVE ExclusionLoop(_, _, _, _)
ExclusionLoop(st, i, lines, exclude_patterns) ==
    IF i > Len(lines) THEN st
    ELSE ExclusionLoop(ExclusionLine(st, i, lines[i], exclude_patterns),
                       i + 1, lines, exclude_patterns)

\* _apply_exclusions(content, exclude_patterns)
apply_exclusions(lines, exclude_patterns) ==
    ExclusionLoop(ExclusionStart, 1, lines, exclude_patterns).result

----------------------------------------------------------------------------
(* LoreSpec: the two lore filters on every note of up to MaxLines lines, as  *)
(* _load_obsidian_lore calls them: _extract_sections when the lore entry     *)
(* lists charon_sections, _apply_exclusions when it lists none.              *)

MaxLines == 4

Levels == {1, 2}

Overview == <<"O", "v", "e", "r", "v", "i", "e", "w">>

GMNotes == <<"G", "M", " ", "N", "o", "t", "e", "s">>

\* A heading spelt "GM notes".
GMnotes == <<"G", "M", " ", "n", "o", "t", "e", "s">>

History == <<"H", "i", "s", "t", "o", "r", "y">>

\* The default of lore_config.get('exclude_patterns', [...]), each r'^' + literal.
DefaultExcludePatterns ==
    <<GMNotes, <<"S", "e", "c", "r", "e", "t", "s">>, <<"S", "e", "s", "s", "i", "o", "n">>,
      <<"A", "d", "v", "e", "n", "t", "u", "r", "e", " ", "H", "o", "o", "k", "s">>,
      <<"C", "a", "m", "p", "a", "i", "g", "n">>>>

\* The lore entry of a location.yaml.
LoreConfig(note, charon_sections, exclude_patterns) ==
    [note |-> note, charon_sections |-> charon_sections,
     exclude_patterns |-> exclude_patterns]

\* A location.yaml that parses to a mapping; name and lore may be missing.
Mapping(name, lore) == [type |-> "mapping", name |-> name, lore |-> lore]

\* The directory of the location whose lore is loaded.
LorePath == <<"sol">>

\* The files of a location whose location.yaml has the lore entry lore_config
\* and whose vault note holds lines.
LoreFiles(lines, lore_config) ==
    [NoFiles EXCEPT !.yaml = [path \in {LorePath} |->
                                 Parsed(Mapping(Some("Sol"), Some(lore_config)))],
                    !.note = Parsed(lines)]

\* lore_config as _load_obsidian_lore receives it.
LoreEntry == files.yaml[LorePath].value.lore[1]

\* content = self._extract_sections(content, allowed_sections, exclude_patterns)
ExtractSections ==
    /\ LoreEntry.charon_sections # <<>>
    /\ out' = [op |-> "_extract_sections",
               result |-> extract_sections(files.note.value, LoreEntry.charon_sections,
                                           Get(LoreEntry.exclude_patterns,
                                               DefaultExcludePatterns))]
    /\ UNCHANGED <<storeVars, active_view, charon_ai, next_uuid, threads, ttl, loaderVars>>

\* content = self._apply_exclusions(content, exclude_patterns)
ApplyExclusions ==
    /\ LoreEntry.charon_sections = <<>>
    /\ out' = [op |-> "_apply_exclusions",
               result |-> apply_exclusions(files.note.value,
                                           Get(LoreEntry.exclude_patterns,
                                               DefaultExcludePatterns))]
    /\ UNCHANGED <<storeVars, active_view, charon_ai, next_uuid, threads, ttl, loaderVars>>

NoteLines == {BodyLine} \cup {Heading(l, n) : l \in Levels, n \in {Overview, GMnotes}}

\* The note of the filtering example, at every choice of heading levels.
ExampleNotes ==
    {<<Heading(a, Overview), BodyLine, Heading(b, GMNotes), BodyLine,
       Heading(c, History), BodyLine>> : a \in Levels, b \in Levels, c \in Levels}

Notes == UNION {[1..n -> NoteLines] : n \in 0..MaxLines} \cup ExampleNotes

\* charon_sections: none; [Overview]; ["overview", "Notes"], whose second
\* entry is found in a "GM notes" heading.
AllowListWithNotes == <<lower(Overview), <<"N", "o", "t", "e", "s">>>>

AllowLists == {<<>>, <<Overview>>, AllowListWithNotes}

LoreInit ==
    /\ EmptyStore
    /\ active_view = InitialView
    /\ charon_ai = CharonAI(None, FALSE)
    /\ next_uuid = 0
    /\ threads = NoThreads
    /\ out = NoOut
    /\ Untimed
    /\ charon_cache = EmptyCache
    /\ broadcaster = NoListeners
    /\ \E lines \in Notes, allowed_sections \in AllowLists :
          files = LoreFiles(lines, LoreConfig("note.md", allowed_sections, None))

LoreNext ==
    \/ ExtractSections
    \/ ApplyExclusions

LoreSpec == LoreInit /\ [][LoreNext]_vars

----------------------------------------------------------------------------
(* charon_knowledge.py : CharonKnowledgeLoader, and the context CharonAI     *)
(* builds from it.  The vault path is configured.  What a loader returns is  *)
(* a record whose field raised tells whether the call raised instead.        *)

\* yaml.safe_load(f) or {} of an empty file, or of a file holding {}.
EmptyMapping == Mapping(None, None)

\* A location.yaml holding a non-empty scalar or list instead of a mapping.
Scalar == [type |-> "scalar"]

\* bool(location_data)
Truthy(value) == value # EmptyMapping

\* Path(*parts[:i])
Prefix(parts, i) == SubSeq(parts, 1, i)

\* The location.yaml under base_path / rel_path.
YamlAt(rel_path) == IF rel_path \in DOMAIN files.yaml THEN files.yaml[rel_path] ELSE Absent

Loaded(data) == [raised |-> FALSE, data |-> data]

LoadRaised == [raised |-> TRUE, data |-> None]

\* _load_location_yaml(rel_path): None when there is no file; open or
\* yaml.safe_load raise on a file that cannot be read or parsed.
load_location_yaml(rel_path) ==
    LET file == YamlAt(rel_path)
    IN  IF file.kind = "absent" THEN Loaded(None)
        ELSE IF file.kind = "unreadable" THEN LoadRaised
        ELSE Loaded(Some(file.value))

\* location_data['_path'] = str(partial_path)
ChainEntry(partial_path, location_data) ==
    [_path |-> partial_path, name |-> location_data.name, lore |-> location_data.lore]

ChainRaised == [raised |-> TRUE, chain |-> <<>>]

\* chain.append(location_data)
ChainAppend(chain, entry) == Append(chain, entry)

\* The loop of _load_location_chain from i on.  Item assignment on a value
\* that is no mapping raises TypeError.
RECURSIVE ChainLoop(_, _, _)
ChainLoop(chain, i, parts) ==
    IF i > Len(parts) THEN [raised |-> FALSE, chain |-> chain]
    ELSE LET partial_path == Prefix(parts, i)
             loaded == load_location_yaml(partial_path)
         IN  IF loaded.raised THEN ChainRaised
             ELSE IF loaded.data # None /\ Truthy(loaded.data[1])
             THEN IF loaded.data[1].type # "mapping" THEN ChainRaised
                  ELSE ChainLoop(ChainAppend(chain, ChainEntry(partial_path, loaded.data[1])),
                                 i + 1, parts)
             ELSE ChainLoop(chain, i + 1, parts)

\* _load_location_chain()
load_location_chain(location_path) == ChainLoop(<<>>, 1, location_path)

Lore(lines) == [raised |-> FALSE, lines |-> lines]

LoreRaised == [raised |-> TRUE, lines |-> <<>>]

\* f"[LORE FILE NOT FOUND: {note_path}]"
LoreNotFound == <<[kind |-> "not found", level |-> 0, name |-> <<>>]>>

\* '\n'.join(result): the lines at the positions kept.
Joined(lines, result) == [k \in 1..Len(result) |-> lines[result[k]]]

\* _load_obsidian_lore(lore_config); the notes hold no wiki links.
load_obsidian_lore(lore_config) ==
    IF lore_config.note = "" THEN Lore(<<>>)
    ELSE IF files.note.kind = "absent" THEN Lore(LoreNotFound)
    ELSE IF files.note.kind = "unreadable" THEN LoreRaised
    ELSE LET content == files.note.value
             exclude_patterns == Get(lore_config.exclude_patterns, DefaultExcludePatterns)
         IN  IF lore_config.charon_sections # <<>>
             THEN Lore(Joined(content, extract_sections(content, lore_config.charon_sections,
                                                        exclude_patterns)))
             ELSE Lore(Joined(content, apply_exclusions(content, exclude_patterns)))

\* instance.yaml: yaml.safe_load(f) or {}
InstanceConfig(instance_id) == [instance_id |-> instance_id]

EmptyInstance == InstanceConfig(None)

Knowledge(location_chain, lore_content, instance_config) ==
    [raised |-> FALSE, location_chain |-> location_chain, lore_content |-> lore_content,
     instance_config |-> instance_config]

KnowledgeRaised ==
    [raised |-> TRUE, location_chain |-> <<>>, lore_content |-> <<>>,
     instance_config |-> EmptyInstance]

\* load_knowledge()
load_knowledge(location_path) ==
    LET chain == load_location_chain(location_path)
        current_location == load_location_yaml(location_path)
    IN  IF chain.raised \/ current_location.raised THEN KnowledgeRaised
        ELSE LET lore == IF /\ current_location.data # None
                            /\ Truthy(current_location.data[1])
                            /\ current_location.data[1].lore # None
                         THEN load_obsidian_lore(current_location.data[1].lore[1])
                         ELSE Lore(<<>>)
             IN  IF lore.raised THEN KnowledgeRaised
                 ELSE IF files.instance.kind = "absent"
                 THEN Knowledge(chain.chain, lore.lines, EmptyInstance)
                 ELSE IF files.instance.kind = "unreadable" THEN KnowledgeRaised
                 ELSE Knowledge(chain.chain, lore.lines, files.instance.value)

\* The context string, by its blocks: [SYSTEM IDENTITY], [LOCATION HIERARCHY],
\* [DATABANK RECORDS]; a block that is not added is empty here.
Context(identity, hierarchy, records) ==
    [identity |-> identity, hierarchy |-> hierarchy, records |-> records]

\* The empty string.
EmptyContext == Context(None, <<>>, <<>>)

\* build_context_string()
build_context_string(location_path) ==
    LET knowledge == load_knowledge(location_path)
    IN  IF knowledge.raised THEN [raised |-> TRUE, context |-> EmptyContext]
        ELSE [raised |-> FALSE,
              context |-> Context(IF knowledge.instance_config # EmptyInstance
                                  THEN Some(knowledge.instance_config) ELSE None,
                                  knowledge.location_chain,
                                  knowledge.lore_content)]

\* CharonAI._load_knowledge_context(): "" without a location path, and "" when
\* the build raises.
load_knowledge_context(location_path) ==
    IF Falsy(location_path) THEN [raised |-> FALSE, context |-> EmptyContext]
    ELSE LET built == build_context_string(location_path[1])
         IN  IF built.raised THEN [raised |-> FALSE, context |-> EmptyContext]
             ELSE built

----------------------------------------------------------------------------
(* KnowledgeSpec: _load_location_chain and _load_knowledge_context on every  *)
(* state of the files of a location path.                                    *)

KnowledgePath == <<"sol", "earth", "base">>

\* The location paths loaded: the path and its ancestors, and none.
KnowledgePaths == {Some(Prefix(KnowledgePath, n)) : n \in 1..Len(KnowledgePath)} \cup {None}

TheLore == LoreConfig("note.md", <<>>, None)

\* What a location.yaml may be.
YamlFiles ==
    {Absent, Unreadable, Parsed(EmptyMapping), Parsed(Scalar),
     Parsed(Mapping(Some("n"), None)), Parsed(Mapping(Some("n"), Some(TheLore)))}

NoteFiles == {Absent, Unreadable, Parsed(<<Heading(1, Overview), BodyLine>>)}

InstanceFiles == {Absent, Unreadable, Parsed(EmptyInstance), Parsed(InstanceConfig(Some("C7")))}

LoadLocationChain(location_path) ==
    /\ location_path # None
    /\ LET loaded == load_location_chain(location_path[1])
       IN  out' = [op |-> "_load_location_chain", location_path |-> location_path[1],
                   raised |-> loaded.raised, chain |-> loaded.chain]
    /\ UNCHANGED <<storeVars, active_view, charon_ai, next_uuid, threads, ttl, loaderVars>>

LoadKnowledgeContext(location_path) ==
    /\ LET loaded == load_knowledge_context(location_path)
       IN  out' = [op |-> "_load_knowledge_context", location_path |-> location_path,
                   raised |-> loaded.raised, context |-> loaded.context]
    /\ UNCHANGED <<storeVars, active_view, charon_ai, next_uuid, threads, ttl, loaderVars>>

KnowledgeInit ==
    /\ EmptyStore
    /\ active_view = InitialView
    /\ charon_ai = CharonAI(None, FALSE)
    /\ next_uuid = 0
    /\ threads = NoThreads
    /\ out = NoOut
    /\ Untimed
    /\ charon_cache = EmptyCache
    /\ broadcaster = NoListeners
    /\ \E yaml \in [{Prefix(KnowledgePath, n) : n \in 1..Len(KnowledgePath)} -> YamlFiles],
          note \in NoteFiles, instance \in InstanceFiles :
          files = [context |-> Absent, yaml |-> yaml, note |-> note, instance |-> instance]

KnowledgeNext ==
    \/ \E location_path \in KnowledgePaths : LoadLocationChain(location_path)
    \/ \E location_path \in KnowledgePaths : LoadKnowledgeContext(location_path)

KnowledgeSpec == KnowledgeInit /\ [][KnowledgeNext]_vars

----------------------------------------------------------------------------
(* sse_broadcaster.py : MessageAnnouncer.  A queue is named by the number of  *)
(* the listen call that made it; broadcaster.queues holds what each queue    *)
(* holds, registered or not; a message is the number of its announce call.   *)
(* listen and unlisten run under the lock, so each is one step; announce     *)
(* copies the listener list under the lock and then puts without it.         *)

\* queue.Queue(maxsize=5)
QueueMaxSize == 5

MaxListeners == 1

MaxAnnounce == 7

\* The queues made so far.
QueueIds == 1..Len(broadcaster.queues)

\* listen(): a new queue, appended to the listeners.
listen ==
    /\ Len(broadcaster.queues) < MaxListeners
    /\ broadcaster' = [listeners |-> Append(broadcaster.listeners, Len(broadcaster.queues) + 1),
                       queues |-> Append(broadcaster.queues, <<>>)]
    /\ UNCHANGED <<storeVars, active_view, charon_ai, next_uuid, threads, out, ttl,
                   charon_cache, files>>

\* unlisten(q): listeners.remove(q), ValueError passed over.
unlisten(q) ==
    /\ broadcaster' = [broadcaster EXCEPT !.listeners = ListRemove(@, q)]
    /\ UNCHANGED <<storeVars, active_view, charon_ai, next_uuid, threads, out, ttl,
                   charon_cache, files>>

\* Where an announce call goes after index i of its copy of the list.
AfterIndex(i) == IF i > 1 THEN "putting" ELSE "idle"

\* announce(data): the message is built and the listener list copied.
AnnounceCopy(t) ==
    /\ threads.pc[t] = "idle"
    /\ threads.announced < MaxAnnounce
    /\ threads' = [threads EXCEPT
                       !.announced = @ + 1,
                       !.msg[t] = threads.announced + 1,
                       !.listeners[t] = broadcaster.listeners,
                       !.i[t] = Len(broadcaster.listeners),
                       !.pc[t] = IF broadcaster.listeners # <<>> THEN "putting" ELSE "idle"]
    /\ UNCHANGED <<storeVars, active_view, charon_ai, next_uuid, out, ttl, loaderVars>>

\* announce: listeners[i].put_nowait(msg), queue.Full caught.  threads.full
\* keeps, for each queue, how many announce calls had begun when a put first
\* found it full.
AnnouncePut(t) ==
    /\ threads.pc[t] = "putting"
    /\ LET q == threads.listeners[t][threads.i[t]]
       IN  IF Len(broadcaster.queues[q]) < QueueMaxSize
           THEN /\ broadcaster' = [broadcaster EXCEPT !.queues[q] = Append(@, threads.msg[t])]
                /\ threads' = [threads EXCEPT !.i[t] = @ - 1,
                                              !.pc[t] = AfterIndex(threads.i[t])]
           ELSE /\ UNCHANGED broadcaster
                /\ threads' = [threads EXCEPT
                                  !.pc[t] = "removing",
                                  !.full[q] = IF @ = None THEN Some(threads.announced) ELSE @]
    /\ UNCHANGED <<storeVars, active_view, charon_ai, next_uuid, out, ttl, charon_cache, files>>

\* announce: self.unlisten(listeners[i]) after queue.Full.
AnnounceUnlisten(t) ==
    /\ threads.pc[t] = "removing"
    /\ broadcaster' = [broadcaster EXCEPT
                          !.listeners = ListRemove(@, threads.listeners[t][threads.i[t]])]
    /\ threads' = [threads EXCEPT !.i[t] = @ - 1, !.pc[t] = AfterIndex(threads.i[t])]
    /\ UNCHANGED <<storeVars, active_view, charon_ai, next_uuid, out, ttl, charon_cache, files>>

\* The holder of a queue takes its first message: q.get().
Deliver(q) ==
    /\ broadcaster.queues[q] # <<>>
    /\ broadcaster' = [broadcaster EXCEPT !.queues[q] = Tail(@)]
    /\ UNCHANGED <<storeVars, active_view, charon_ai, next_uuid, threads, out, ttl,
                   charon_cache, files>>

BroadcastInit ==
    /\ EmptyStore
    /\ active_view = InitialView
    /\ charon_ai = CharonAI(None, FALSE)
    /\ next_uuid = 0
    /\ threads = [pc |-> [t \in Callers |-> "idle"],
                  msg |-> [t \in Callers |-> 0],
                  listeners |-> [t \in Callers |-> <<>>],
                  i |-> [t \in Callers |-> 0],
                  announced |-> 0,
                  full |-> [q \in 1..MaxListeners |-> None]]
    /\ out = NoOut
    /\ Untimed
    /\ NoLoaders

BroadcastNext ==
    \/ listen
    \/ \E q \in QueueIds : unlisten(q)
    \/ \E t \in Callers : AnnounceCopy(t)
    \/ \E t \in Callers : AnnouncePut(t)
    \/ \E t \in Callers : AnnounceUnlisten(t)
    \/ \E q \in QueueIds : Deliver(q)

BroadcastSpec == BroadcastInit /\ [][BroadcastNext]_vars

----------------------------------------------------------------------------
(* Properties of the handlers (Spec) *)

\* Messages of channel ch that this step added.
Added(ch) == {m \in Range(conversation'[ch]) : m \notin Range(conversation[ch])}

\* Drafts of channel ch that this step took out of the queue.
Dropped(ch) == {e \in Range(pending[ch]) : e \notin Range(pending'[ch])}

PendingIds(ch) == {pending[ch][i].pending_id : i \in 1..Len(pending[ch])}

\* The step is a successful approve of draft e of channel ch, adding message m.
ApprovedBy(ch, e, m) ==
    \E mod \in Overrides :
        /\ api_charon_channel_approve(ch, e.pending_id, mod, "200")
        /\ m.content = IF mod = None THEN e.response ELSE mod[1]

\* The step is a GM direct send to channel ch, adding message m.
SentBy(ch, m) ==
    \E c \in GmContents :
        /\ api_charon_channel_send(ch, c)
        /\ m.content = c

\* The step is a player submit or a GM generate on channel ch.
SubmitOrGenerate(ch) ==
    \E q \in Queries, st \in Statuses :
        \/ api_charon_channel_submit(ch, q, st)
        \/ (ch = "default" /\ api_charon_submit_query(q, st))
        \/ api_charon_channel_generate(ch, q, st)
        \/ (ch = "default" /\ api_charon_generate(q, st))

\* C1 (GM approval gate): every charon-role message a step adds to a channel
\* is added by a successful approve of a draft queued on that channel, with the
\* draft's response or the GM's override as content, or by a GM direct send;
\* no step that adds a charon-role message is a player submit or a GM generate.
C1_ApprovalGate ==
    [][\A ch \in Channels :
          /\ \A m \in Added(ch) :
                m.role = "charon" =>
                    \/ \E e \in Range(pending[ch]) : ApprovedBy(ch, e, m)
                    \/ SentBy(ch, m)
          /\ (\E m \in Added(ch) : m.role = "charon") => ~SubmitOrGenerate(ch)]_vars

\* C1 witness: a draft was approved: its response is in the conversation as a
\* charon-role message, after the query it answers, and the queue is empty.
C1_Witness ==
    \E ch \in Channels :
        /\ Len(conversation[ch]) = 2
        /\ conversation[ch][1].role = "user"
        /\ conversation[ch][2].role = "charon"
        /\ conversation[ch][2].content \in ModelTexts
        /\ pending[ch] = <<>>

\* C6 (query-mode gate): a player submit made while the mode is not QUERY is
\* answered 403 and leaves conversation and pending queue as they were, on the
\* default-channel submit and on the per-channel submit alike.
C6_QueryModeGate ==
    [][\A q \in Queries, st \in Statuses :
          (/\ active_view.charon_mode # "QUERY"
           /\ \/ api_charon_submit_query(q, st)
              \/ \E ch \in Channels : api_charon_channel_submit(ch, q, st))
          => (st = "403" /\ UNCHANGED <<conversation, pending>>)]_vars

\* C7 (no cancellation), as claimed: a queued draft leaves the queue only by a
\* successful approve or reject naming its id.
C7_NoCancellation ==
    [][\A ch \in Channels : \A e \in Dropped(ch) :
          \/ \E mod \in Overrides : api_charon_channel_approve(ch, e.pending_id, mod, "200")
          \/ api_charon_channel_reject(ch, e.pending_id, "200")]_vars

\* C7 amended: a queued draft leaves the queue only by a successful approve or
\* reject naming its id, or when its channel is cleared: by clear(channel), or
\* by a view switch that clears that channel.
C7_NoCancellationButClear ==
    [][\A ch \in Channels : \A e \in Dropped(ch) :
          \/ \E mod \in Overrides : api_charon_channel_approve(ch, e.pending_id, mod, "200")
          \/ api_charon_channel_reject(ch, e.pending_id, "200")
          \/ api_charon_channel_clear(ch)
          \/ \E vt \in ViewTypes : ch \in ClearedOnSwitch(vt) /\ api_switch_view(vt)]_vars

\* C7 witness: a draft is still queued after a later draft of the same channel
\* was disposed of and a later message was appended.
C7_Witness ==
    \E ch \in Channels :
        /\ Len(pending[ch]) = 1
        /\ pending[ch][1].pending_id < next_uuid - 1
        /\ conversation[ch] # <<>>
        /\ LastMessageId(conversation[ch]) = next_uuid

----------------------------------------------------------------------------
(* Properties of the store methods (StoreSpec) *)

IsPrefix(a, b) == Len(a) <= Len(b) /\ SubSeq(b, 1, Len(a)) = a

\* The queue q without its entry number i.
Without(q, i) == [j \in 1..(Len(q) - 1) |-> IF j < i THEN q[j] ELSE q[j + 1]]

\* The step appends exactly one charon-role message with this content to ch.
AppendsOneCharon(ch, content) ==
    /\ Len(conversation'[ch]) = Len(conversation[ch]) + 1
    /\ IsPrefix(conversation[ch], conversation'[ch])
    /\ conversation'[ch][Len(conversation'[ch])].role = "charon"
    /\ conversation'[ch][Len(conversation'[ch])].content = content

\* C2 (approval transforms one pending entry into one message): approve(p) on
\* a channel whose queue holds p with response R returns True, appends exactly
\* one charon-role message with content R, or M when an override M is given
\* (an empty M too), and takes exactly the entry p out of the queue; approve(p)
\* with p not in the queue (a second approve) returns False and appends nothing.
C2_ApproveOneToOne ==
    [][\A ch \in Channels, pid \in KnownIds, mod \in Overrides, ok \in BOOLEAN :
          StoreApprove(ch, pid, mod, ok) =>
              IF pid \in PendingIds(ch)
              THEN \E i \in 1..Len(pending[ch]) :
                      /\ pending[ch][i].pending_id = pid
                      /\ out'.ret = "True"
                      /\ AppendsOneCharon(ch, IF mod = None THEN pending[ch][i].response
                                              ELSE mod[1])
                      /\ pending'[ch] = Without(pending[ch], i)
              ELSE /\ out'.ret = "False"
                   /\ UNCHANGED <<conversation, pending>>]_vars

\* C2 witness: of two drafts queued on a channel the first was approved with an
\* empty override: the message is there, the other draft still queued.
C2_Witness ==
    \E ch \in Channels :
        /\ out = Ret("True", 0)
        /\ Len(conversation[ch]) = 1
        /\ conversation[ch][1].role = "charon"
        /\ conversation[ch][1].content = ""
        /\ Len(pending[ch]) = 1
        /\ pending[ch][1].pending_id = 2

\* C3 (rejection is silent): reject(p) on a queued entry returns True, takes
\* exactly that entry out of the queue and leaves the conversation unchanged;
\* reject(p) for an id not in the channel's queue returns False and leaves
\* conversation, queue, read marker and registry unchanged.
C3_RejectSilent ==
    [][\A ch \in Channels, pid \in KnownIds, ok \in BOOLEAN :
          StoreReject(ch, pid, ok) =>
              IF pid \in PendingIds(ch)
              THEN \E i \in 1..Len(pending[ch]) :
                      /\ pending[ch][i].pending_id = pid
                      /\ out'.ret = "True"
                      /\ pending'[ch] = Without(pending[ch], i)
                      /\ UNCHANGED conversation
              ELSE /\ out'.ret = "False"
                   /\ UNCHANGED storeVars]_vars

\* C3 witness: the first of two queued drafts was rejected: the second is
\* still queued and the conversation, which held a message, still holds it.
C3_Witness ==
    \E ch \in Channels :
        /\ out = Ret("True", 0)
        /\ Len(conversation[ch]) = 1
        /\ Len(pending[ch]) = 1
        /\ pending[ch][1].pending_id = 3
        /\ next_uuid = 3

\* The step is a clear of channel ch.
IsClear(ch) == StoreClear(ch)

\* C4 (append-only order): a step that is no clear of the channel leaves the
\* channel's conversation a prefix of the new one, and an addMessage call, of
\* any role, puts its message last; so the list reads back in call order (ids
\* are handed out in call order).
C4_AppendOnly ==
    [][\A ch \in Channels :
          /\ ~IsClear(ch) => IsPrefix(conversation[ch], conversation'[ch])
          /\ \A role \in Roles, c \in GmContents :
                StoreAddMessage(ch, role, c) =>
                    conversation'[ch] =
                        conversation[ch] \o <<CharonMessage(next_uuid + 1, role, c)>>]_vars

\* C4 witness: three messages of three roles read back in call order.
C4_Witness ==
    \E ch \in Channels :
        /\ Len(conversation[ch]) = 3
        /\ \A i \in 1..3 : conversation[ch][i].message_id = i
        /\ {conversation[ch][i].role : i \in 1..3} = Roles

\* The step is a store call addressed to channel a.
AddressedTo(a) ==
    \/ \E role \in Roles, c \in GmContents : StoreAddMessage(a, role, c)
    \/ \E q \in Queries, r \in Responses : StoreAddPending(a, q, r)
    \/ \E pid \in KnownIds, m \in Overrides, ok \in BOOLEAN : StoreApprove(a, pid, m, ok)
    \/ \E pid \in KnownIds, ok \in BOOLEAN : StoreReject(a, pid, ok)
    \/ StoreClear(a)
    \/ StoreMarkRead(a)

\* C5 (channel isolation): a store call addressed to channel A leaves the
\* conversation, the pending queue and the read marker of every other channel
\* unchanged.
C5_ChannelIsolation ==
    [][\A a \in Channels, b \in Channels :
          (a # b /\ AddressedTo(a)) =>
              /\ conversation'[b] = conversation[b]
              /\ pending'[b] = pending[b]
              /\ last_read'[b] = last_read[b]]_vars

\* C5 witness: one channel holds a message, a draft and a read marker while
\* the other channel was cleared after holding a message.
C5_Witness ==
    \E a \in Channels, b \in Channels :
        /\ a # b
        /\ conversation[a] # <<>> /\ pending[a] # <<>> /\ last_read[a] # NoMarker
        /\ conversation[b] = <<>> /\ pending[b] = <<>> /\ last_read[b] # NoMarker

----------------------------------------------------------------------------
(* Racing appends (RaceSpec) *)

RaceConversation == conversation[RaceChannel]

\* The message of the n-th call to write the conversation key.
Written(n) == threads.msg[threads.writes[n]]

\* C8 (last writer wins): while two addMessage calls race on a channel, the
\* stored list is always the list found before the calls followed by what one
\* writer wrote: nothing, one of the two messages, or both in write order; once
\* both have written it ends with the message of the call that wrote last, and
\* is the earlier list followed by both messages or by that message alone.
C8_LastWriterWins ==
    LET pre == threads.pre
        n   == Len(threads.writes)
    IN  /\ IsPrefix(pre, RaceConversation)
        /\ n = 0 => RaceConversation = pre
        /\ n = 1 => RaceConversation = pre \o <<Written(1)>>
        /\ n = 2 => \/ RaceConversation = pre \o <<Written(1), Written(2)>>
                    \/ RaceConversation = pre \o <<Written(2)>>

\* C8 witness: both calls are over and the append of the first writer is lost.
C8_Witness ==
    /\ \A t \in Callers : threads.pc[t] = "done"
    /\ threads.pre # <<>>
    /\ RaceConversation = threads.pre \o <<Written(2)>>

----------------------------------------------------------------------------
(* The responder (AISpec) *)

ConfiguredFallbacks == Get(charon_ai.config.fallback_responses, DefaultFallbacks)

\* C9 (fail-open responder), as claimed: for every configuration record
\* generate_response never raises and never returns an empty text, and without
\* a client, or when the model call throws, the text returned is one of the
\* configured fallback lines.
C9_FailOpen ==
    out.op = "generate_response" =>
        /\ ~out.raised
        /\ out.text # ""
        /\ (~charon_ai.client \/ out.model_raised) =>
               out.text \in Range(ConfiguredFallbacks)

----------------------------------------------------------------------------
(* The unread count (UnreadSpec) *)

RECURSIVE AfterFirst(_, _)
\* The number of messages strictly after the first one carrying id; 0 if none.
AfterFirst(conv, id) ==
    IF conv = <<>> THEN 0
    ELSE IF Head(conv).message_id = id THEN Len(conv) - 1
    ELSE AfterFirst(Tail(conv), id)

RECURSIVE Unanswered(_)
\* The number of user-role messages that are last or not followed by a
\* charon-role message.
Unanswered(conv) ==
    IF conv = <<>> THEN 0
    ELSE (IF Head(conv).role = "user" /\ (Len(conv) = 1 \/ conv[2].role # "charon")
          THEN 1 ELSE 0)
         + Unanswered(Tail(conv))

RolesOf(conv) == [i \in 1..Len(conv) |-> conv[i].role]

\* C10 (unread count): with a marker id the count is the number of messages
\* strictly after the first message carrying that id, 0 when none carries it;
\* with no marker it is the number of user-role messages that are last or
\* whose successor is not charon-role; [user, charon, user] gives 1 without a
\* marker and 2 with the marker at the first message; an empty list gives 0.
C10_UnreadCount ==
    out.op = "get_unread_count" =>
        LET conv == conversation[UnreadChannel]
        IN  /\ out.marker # NoMarker => out.count = AfterFirst(conv, out.marker)
            /\ out.marker = NoMarker => out.count = Unanswered(conv)
            /\ conv = <<>> => out.count = 0
            /\ RolesOf(conv) = <<"user", "charon", "user">> =>
                  /\ out.marker = NoMarker => out.count = 1
                  /\ (out.marker = conv[1].message_id) => out.count = 2

\* C10 witness: [user, charon, user] counted with the marker at its first
\* message, whose id no other message carries.
C10_Witness ==
    /\ out.op = "get_unread_count"
    /\ RolesOf(conversation[UnreadChannel]) = <<"user", "charon", "user">>
    /\ out.marker = conversation[UnreadChannel][1].message_id
    /\ out.count = 2

----------------------------------------------------------------------------
(* Clear and the channel registry (StoreSpec) *)

\* C11 (clear frame): clear(channel) leaves the channel's conversation and
\* pending queue empty and changes nothing else: the registry, the read
\* markers, and the conversation and queue of every other channel stay as
\* they were.
C11_ClearFrame ==
    [][\A ch \in Channels :
          StoreClear(ch) =>
              /\ get_conversation(ch)' = <<>>
              /\ get_pending_responses(ch)' = <<>>
              /\ get_all_channels' = get_all_channels
              /\ (ch \in Range(get_all_channels) => ch \in Range(get_all_channels'))
              /\ last_read' = last_read
              /\ \A b \in Channels \ {ch} :
                    /\ conversation'[b] = conversation[b]
                    /\ pending'[b] = pending[b]]_vars

\* C11 witness: a registered channel that held a message, a read marker and a
\* draft is empty after a clear, while the other channel still holds a message
\* and a draft.
C11_Witness ==
    \E ch \in Channels, b \in Channels :
        /\ ch # b
        /\ out = Ret("None", 0)
        /\ conversation[ch] = <<>> /\ pending[ch] = <<>>
        /\ last_read[ch] # NoMarker
        /\ ch \in Range(active_channels) /\ b \in Range(active_channels)
        /\ conversation[b] # <<>> /\ pending[b] # <<>>
        /\ next_uuid = MaxUuid

NoDuplicates(s) == \A i, j \in 1..Len(s) : i # j => s[i] # s[j]

\* C12 (channel registry): the list getAllChannels returns never holds a name
\* twice and always holds "default" and "bridge"; registering a name that is
\* already listed leaves the list as it was.
C12_ChannelRegistry ==
    /\ [](/\ NoDuplicates(get_all_channels)
          /\ {"default", "bridge"} \subseteq Range(get_all_channels))
    /\ [][\A ch \in Channels :
             (StoreRegister(ch) /\ ch \in Range(get_all_channels)) =>
                 get_all_channels' = get_all_channels]_vars

\* C12 witness: "story" was registered by two addMessage calls and "default"
\* by one, and the registry lists each name once.
C12_Witness ==
    /\ Len(conversation["story"]) = 2
    /\ Len(conversation["default"]) = 1
    /\ active_channels = <<"default", "bridge", "story">>

----------------------------------------------------------------------------
(* The registry under expiry (TtlSpec) *)

\* C13 (channels are enumerable): in every reachable state every channel
\* whose conversation is non-empty is listed by getAllChannels, the registry
\* key and the conversation keys each expiring on their own clock.
C13_ChannelsEnumerable ==
    \A ch \in Channels :
        get_conversation(ch) # <<>> => ch \in Range(get_all_channels)

----------------------------------------------------------------------------
(* The responder cache (CacheSpec) *)

\* The key of a requested path: "no location" for an absent or empty path.
KeyOf(location_path) ==
    IF location_path \in {None, Some(<<>>)} THEN NoLocationKey ELSE location_path[1]

----------------------------------------------------------------------------
(* Location resolution (LocationSpec) *)

\* The root-to-location paths of the location tree.
LocationTreePaths == {<<"sol">>, <<"sol", "earth">>, <<"sol", "earth", "base">>, <<"tau">>}

Last(p) == p[Len(p)]

\* The encounter location is displayed and the provider resolves its slug.
EncounterResolvable(view) ==
    /\ view.view_type = "ENCOUNTER"
    /\ view.location_slug # ""
    /\ \E p \in LocationTreePaths : Last(p) = view.location_slug

\* C15 (location resolution priority): the path is the one derived from the
\* encounter location when the view is an ENCOUNTER view whose slug resolves;
\* otherwise the explicitly set path when that is non-empty; otherwise absent.
C15_LocationPriority ==
    out.op = "get_charon_location_path" =>
        IF EncounterResolvable(active_view)
        THEN \E p \in LocationTreePaths :
                 Last(p) = active_view.location_slug /\ out.path = Some(p)
        ELSE IF active_view.charon_location_path # <<>>
        THEN out.path = Some(active_view.charon_location_path)
        ELSE out.path = None

\* C15 witness: an ENCOUNTER view on "base" with an explicit path set resolves
\* to the path of "base", not to the explicit path.
C15_Witness ==
    /\ out.op = "get_charon_location_path"
    /\ active_view.view_type = "ENCOUNTER"
    /\ active_view.location_slug = "base"
    /\ active_view.charon_location_path = <<"tau">>
    /\ out.path = Some(<<"sol", "earth", "base">>)

----------------------------------------------------------------------------
(* GM-initiated generation (Spec) *)

\* The results generate_response can hand a GM generate on channel ch.
GenerateResults(ch) ==
    UNION {Generate(charon_ai, cp, get_conversation(ch)) :
              cp \in {ChannelContextPrompt(p) : p \in Queries}
                     \cup {ContextPrompt(p) : p \in Queries}}

\* The step is a GM generate on channel ch, answered 200, in which
\* generate_response returned res.
GmGenerate(ch, res) ==
    \E p \in Queries : GenerateWith(ch, p, res, "200")

\* The step is a GM generate request on channel ch.
GmGenerateRequest(ch) ==
    \E p \in Queries \cup {""}, status \in Statuses :
        \/ api_charon_channel_generate(ch, p, status)
        \/ (ch = "default" /\ api_charon_generate(p, status))

----------------------------------------------------------------------------
(* The lore filters (LoreSpec) *)

\* The note that was filtered, and the deny patterns in force.
Note == files.note.value

DenyPatterns == Get(LoreEntry.exclude_patterns, DefaultExcludePatterns)

\* Line i is a heading whose name matches a deny pattern.
DeniedHeading(i) ==
    /\ Note[i].kind = "heading"
    /\ \E k \in 1..Len(DenyPatterns) :
          LET literal == lower(DenyPatterns[k])
              name == lower(Note[i].name)
          IN  Len(literal) <= Len(name) /\ \A c \in 1..Len(literal) : name[c] = literal[c]

\* Line i is a body line and the nearest heading above it is heading h.
DirectlyUnder(i, h) ==
    /\ Note[i].kind = "body"
    /\ h < i
    /\ Note[h].kind = "heading"
    /\ \A j \in (h + 1)..(i - 1) : Note[j].kind = "body"

Emitted == Range(out.result)

\* C17 (lore deny precedence, allow-list mode): a heading that matches a deny
\* pattern is not emitted, nor is a body line directly under it, whatever the
\* allow-list holds; and the note with headings Overview, GM Notes, History
\* filtered with allow-list [Overview] gives the Overview heading and its
\* body line alone.
C17_DenyPrecedence ==
    out.op = "_extract_sections" =>
        /\ \A h \in 1..Len(Note) :
              DeniedHeading(h) =>
                  /\ h \notin Emitted
                  /\ \A i \in 1..Len(Note) : DirectlyUnder(i, h) => i \notin Emitted
        /\ (Note \in ExampleNotes /\ LoreEntry.charon_sections = <<Overview>>) =>
              out.result = <<1, 2>>

\* C17 witness: a note in which an allowed Overview section is followed by a
\* "GM notes" heading that the allow-list entry "Notes" matches, with a body
\* line under each; the Overview lines were emitted.
C17_Witness ==
    /\ out.op = "_extract_sections"
    /\ LoreEntry.charon_sections = AllowListWithNotes
    /\ Note = <<Heading(1, Overview), BodyLine, Heading(2, GMnotes), BodyLine>>
    /\ out.result = <<1, 2>>

\* Line i lies inside the section of heading h: from h up to the next heading
\* at the level of h or a shallower one.
InsideSection(i, h) ==
    /\ h <= i
    /\ Note[h].kind = "heading"
    /\ \A j \in (h + 1)..i : Note[j].kind = "heading" => Note[j].level > Note[h].level

\* C18 (lore section extent, no allow-list): a line is retained iff it is
\* inside no denied section, at every nesting of headings.
C18_SectionExtent ==
    out.op = "_apply_exclusions" =>
        \A i \in 1..Len(Note) :
            i \in Emitted <=> ~\E h \in 1..i : DeniedHeading(h) /\ InsideSection(i, h)

\* C30 (no leak through nested headings, allow-list mode): no line inside
\* the section of a denied heading, from it up to the next heading at its
\* level or a shallower one, is emitted, also when a deeper heading nested
\* under it matches an entry of the allow-list.
C30_NoNestedLeak ==
    out.op = "_extract_sections" =>
        \A h \in 1..Len(Note) :
            DeniedHeading(h) =>
                \A i \in h..Len(Note) : InsideSection(i, h) => i \notin Emitted

----------------------------------------------------------------------------
(* The knowledge loader (KnowledgeSpec) *)

\* The prefixes of path that have a location.yaml.
BackedPrefixes(path) ==
    {Prefix(path, n) : n \in {m \in 1..Len(path) : YamlAt(Prefix(path, m)).kind # "absent"}}

\* C19 (location chain ordering): loadLocationChain returns one record for
\* each prefix of the path that has a metadata file, and no other, in
\* root-to-leaf order, each tagged with its prefix; so as many records as
\* there are metadata files, whatever mapping each of them holds.
C19_ChainOrdering ==
    (/\ out.op = "_load_location_chain"
     /\ \A p \in BackedPrefixes(out.location_path) :
           YamlAt(p).kind = "parsed" /\ YamlAt(p).value.type = "mapping") =>
        /\ ~out.raised
        /\ {out.chain[k]._path : k \in 1..Len(out.chain)} = BackedPrefixes(out.location_path)
        /\ Len(out.chain) = Cardinality(BackedPrefixes(out.location_path))
        /\ \A k \in 1..(Len(out.chain) - 1) :
              Len(out.chain[k]._path) < Len(out.chain[k + 1]._path)

\* The location hierarchy the files of the requested path give.
LoadedChain == load_location_chain(out.location_path[1])

\* C20 (partial knowledge on failure): when the location files load, the
\* context holds the location-hierarchy block they give, also when reading
\* the lore note or instance.yaml fails; the identity block is there
\* whenever instance.yaml was read and is not empty.
C20_PartialKnowledge ==
    (/\ out.op = "_load_knowledge_context"
     /\ out.location_path # None
     /\ ~LoadedChain.raised) =>
        /\ ~out.raised
        /\ out.context.hierarchy = LoadedChain.chain
        /\ (files.instance.kind = "parsed" /\ files.instance.value # EmptyInstance) =>
              out.context.identity = Some(files.instance.value)

----------------------------------------------------------------------------
(* The unread count without a marker (UnreadSpec) *)

RECURSIVE Open(_, _)
\* The number of user messages of conv left without a reply, when open are
\* waiting already: a charon message replies to one waiting user message.
Open(conv, open) ==
    IF conv = <<>> THEN open
    ELSE Open(Tail(conv),
              IF Head(conv).role = "user" THEN open + 1
              ELSE IF Head(conv).role = "charon" /\ open > 0 THEN open - 1
              ELSE open)

\* The number of user messages that have received no reply.
NoReply(conv) == Open(conv, 0)

\* Two user messages in a row with no charon message before them.
TwoQueriesInARow(conv) ==
    \E i \in 1..(Len(conv) - 1) :
        /\ conv[i].role = "user"
        /\ conv[i + 1].role = "user"
        /\ \A j \in 1..i : conv[j].role # "charon"

\* C21 (unread undercount), as stated: with no marker, on a conversation in
\* which two user queries come in a row before any charon reply, the count is
\* smaller than the number of user messages that have received no reply.
C21_UnreadUndercount ==
    (/\ out.op = "get_unread_count"
     /\ out.marker = NoMarker
     /\ TwoQueriesInARow(conversation[UnreadChannel])) =>
        out.count < NoReply(conversation[UnreadChannel])

\* C21 amended: with no marker the count is never smaller than the number of
\* user messages that have received no reply, and on two user queries in a
\* row with no charon message at all it is exactly the number of user
\* messages.
C21_UnreadNoUndercount ==
    (out.op = "get_unread_count" /\ out.marker = NoMarker) =>
        LET conv == conversation[UnreadChannel]
        IN  /\ out.count >= NoReply(conv)
            /\ (TwoQueriesInARow(conv) /\ \A j \in 1..Len(conv) : conv[j].role # "charon") =>
                  /\ out.count = NoReply(conv)
                  /\ out.count = Cardinality({j \in 1..Len(conv) : conv[j].role = "user"})

\* C21 witness: [user, user] counted without a marker gives 2.
C21_Witness ==
    /\ out.op = "get_unread_count"
    /\ out.marker = NoMarker
    /\ RolesOf(conversation[UnreadChannel]) = <<"user", "user">>
    /\ out.count = 2

----------------------------------------------------------------------------
(* The location of a GM generation (LocationSpec) *)

\* C22 (GM generation resolves the location as a player query does): for
\* every active view and every channel, the cache key with which a GM
\* generation on the channel obtains the responder is the key of the location
\* get_charon_location_path gives for the active view, which is the one a
\* player submit on that channel uses.
C22_GenerateLocation ==
    /\ out.op = "api_charon_channel_submit" =>
          out.cache_key = CacheKey(get_charon_location_path(active_view))
    /\ out.op = "api_charon_channel_generate" =>
          out.cache_key = CacheKey(get_charon_location_path(active_view))

----------------------------------------------------------------------------
(* Racing disposals of drafts (DisposalSpec) *)

\* Both calls have returned.
BothDone == \A t \in Callers : threads.pc[t] = "done"

\* The charon-role messages of the channel that carry the text of draft p.
DerivedFrom(p) ==
    {i \in 1..Len(conversation[RaceChannel]) :
        /\ conversation[RaceChannel][i].role = "charon"
        /\ conversation[RaceChannel][i].content = Draft(p).response}

\* Draft p was queued when the calls began.
Queued(p) == \E i \in 1..Len(threads.pre) : threads.pre[i].pending_id = p

\* C23 (no duplicate approval under interleaving): while two approve(p) calls
\* race on a channel, at most one of them returns true and the conversation
\* holds at most one charon-role message derived from p.
C23_NoDuplicateApproval ==
    \A p \in 1..MaxPre :
        (\A t \in Callers : threads.op[t] = "approve" /\ threads.pid[t] = p) =>
            /\ Cardinality({t \in Callers : threads.ret[t] = Some(TRUE)}) <= 1
            /\ Cardinality(DerivedFrom(p)) <= 1

\* C24 (single disposition): once an approve(p) call and a reject(p) call that
\* raced on a channel have both returned, exactly one of them returned true,
\* and a charon-role message derived from p is in the conversation iff it was
\* the approve call.
C24_SingleDisposition ==
    \A p \in 1..MaxPre, a \in Callers, r \in Callers :
        (/\ Queued(p) /\ BothDone
         /\ threads.op[a] = "approve" /\ threads.pid[a] = p
         /\ threads.op[r] = "reject" /\ threads.pid[r] = p) =>
            /\ (threads.ret[a] = Some(TRUE)) # (threads.ret[r] = Some(TRUE))
            /\ (DerivedFrom(p) # {}) <=> (threads.ret[a] = Some(TRUE))

\* C25 (no draft lost to another draft's disposal): once an addPending(q)
\* call and an approve or reject call for another queued id p that raced on a
\* channel have both returned, q is in the pending queue and p is not.
C25_NoDraftLost ==
    \A p \in 1..MaxPre, a \in Callers, d \in Callers :
        (/\ Queued(p) /\ BothDone
         /\ threads.op[a] = "add_pending"
         /\ threads.op[d] \in {"approve", "reject"} /\ threads.pid[d] = p) =>
            /\ threads.pid[a] \in {e.pending_id : e \in Range(pending[RaceChannel])}
            /\ p \notin {e.pending_id : e \in Range(pending[RaceChannel])}

----------------------------------------------------------------------------
(* The read marker (StoreSpec) *)

\* The unread count api_charon_channels shows for a channel.
SummaryUnread(ch) == get_unread_count(get_conversation(ch), get_last_read(ch))

\* C26 (read marker validity): a stored read marker of a channel names the id
\* of a message of the channel's current conversation, and the unread count
\* of the channel summary is the number of messages after that message.
C26_MarkerValid ==
    \A ch \in Channels :
        get_last_read(ch) # NoMarker =>
            /\ \E i \in 1..Len(conversation[ch]) :
                  conversation[ch][i].message_id = get_last_read(ch)
            /\ \A i \in 1..Len(conversation[ch]) :
                  conversation[ch][i].message_id = get_last_read(ch) =>
                      SummaryUnread(ch) = Len(conversation[ch]) - i

----------------------------------------------------------------------------
(* Drafts and the channel registry (Spec) *)

\* C27 (pending drafts are discoverable): every channel whose pending queue
\* is non-empty is listed by get_all_channels().
C27_DraftsListed ==
    \A ch \in Channels :
        get_pending_responses(ch) # <<>> => ch \in Range(get_all_channels)

----------------------------------------------------------------------------
(* The model input of a player query (InputSpec) *)

\* The message list sent to the model by the last submit.
Sent == out.request[1].messages

\* The role an entry of the history is sent under.
SentRole(role) == IF role = "charon" THEN "assistant" ELSE "user"

----------------------------------------------------------------------------
(* The SSE broadcaster (BroadcastSpec) *)

\* No queue holds more than 5 messages.
QueuesBounded == \A q \in QueueIds : Len(broadcaster.queues[q]) <= QueueMaxSize

\* A queue that an announce found full holds no message of an announce call
\* that began after that.
NoLaterAnnouncement ==
    \A q \in QueueIds :
        threads.full[q] # None =>
            \A k \in 1..Len(broadcaster.queues[q]) :
                broadcaster.queues[q][k] <= threads.full[q][1]

\* A queue that an announce found full is out of the listeners once that
\* announce has gone past it.
FullRemoved ==
    \A q \in QueueIds :
        (/\ threads.full[q] # None
         /\ \A t \in Callers : threads.pc[t] = "idle") => q \notin Range(broadcaster.listeners)

\* An announce puts its message on each listener of its copy whose queue is
\* not full, and its copy is the list of the registered listeners.
PutsUnlessFull ==
    \A t \in Callers :
        /\ AnnounceCopy(t) => threads'.listeners[t] = broadcaster.listeners
        /\ AnnouncePut(t) =>
              LET q == threads.listeners[t][threads.i[t]]
              IN  Len(broadcaster.queues[q]) < QueueMaxSize =>
                      broadcaster'.queues[q] = Append(broadcaster.queues[q], threads.msg[t])

\* unlisten of a queue that is not registered changes nothing.
UnlistenUnregistered ==
    \A q \in QueueIds :
        (unlisten(q) /\ q \notin Range(broadcaster.listeners)) => broadcaster' = broadcaster

\* C29 (SSE broadcaster back-pressure): under every interleaving no listener
\* queue holds more than 5 undelivered messages; an announce enqueues its
\* message on every registered listener whose queue is not full; a listener
\* whose queue an announce found full is removed from the listeners and
\* receives no later announcement; unlisten of a queue that is not
\* registered changes nothing.
C29_BackPressure ==
    /\ [](QueuesBounded /\ FullRemoved /\ NoLaterAnnouncement)
    /\ [][PutsUnlessFull /\ UnlistenUnregistered]_vars

\* The same without the clause on later announcements.
BackPressureButLater ==
    /\ [](QueuesBounded /\ FullRemoved)
    /\ [][PutsUnlessFull /\ UnlistenUnregistered]_vars

====
